---- MODULE Spec2Model ----
(***************************************************************************)
(* A state-machine model of the in-game console of xdoko01/Game-Console    *)
(* (src/pygame_console/__init__.py): the command line processor with its   *)
(* script interpreter, the text output buffer and the text input line.     *)
(*                                                                         *)
(* Python strings are modelled as sequences of one-character strings, so   *)
(* that strip, split and replace are computed the way Python computes      *)
(* them.  Python's None is the string "None"; the integer result codes     *)
(* are the strings "0" and "-1" (str(error) of the source).                *)
(***************************************************************************)
EXTENDS Integers, Sequences, FiniteSets, TLC

VARIABLES
    \* ---- CommandLineProcessor and the host it governs
    cmd_scripts,      \* self._cmd_scripts: alias -> handler
    out,              \* every self.output.write call so far, in order
    proc_out,         \* every text that reached the process's own stdout
    sys_stdout,       \* what sys.stdout is bound to between calls
    script_path,      \* self.script_path ("None" when not configured)
    cmd_pckg_path,    \* self.cmd_pckg_path ("None" when not configured)
    game_pos,         \* app.pos of the host
    game_exit,        \* app.exit of the host
    last,             \* the last onecmd call: its line, result and trace
    \* ---- TextOutput
    to_buffer,        \* TextOutput.buffer
    to_buffer_offset, \* TextOutput.buffer_offset
    to_buffer_size,   \* TextOutput.buffer_size (configuration)
    to_display_lines, \* TextOutput.display_lines (configuration)
    to_display_columns, \* TextOutput.display_columns (configuration)
    to_appended,      \* history: every record ever appended to the buffer
    to_last,          \* history: the last call made on the output and what it found
    \* ---- TextInput
    ti_text,          \* TextInput.text
    ti_cursor_position, \* TextInput.cursor_position
    ti_buffer,        \* TextInput.buffer (input history)
    ti_buffer_offset, \* TextInput.buffer_offset (history index)
    ti_buffer_size,   \* TextInput.buffer_size (configuration)
    ti_keyrepeat_counters, \* TextInput.keyrepeat_counters: key -> ms held
    \* ---- Console
    enabled,          \* Console.enabled
    app,              \* Console.app: the host the console governs
    console_input,    \* Console.console_input ("None" when not configured)
    console_output,   \* Console.console_output ("None" when not configured)
    animation,        \* Console.animation is configured (truthy)
    anim_velocity,    \* Console.anim_velocity, added to anim_perc per ms
    anim_time,        \* Console.anim_time, the ms configured for showing the console
    dim_height,       \* Console.dim[1], the height of the console in pixels
    anim_perc,        \* Console.anim_perc ("None" until first assigned)
    anim_last_time,   \* Console.anim_last_time
    ticks,            \* pygame.time.get_ticks()
    con_last,         \* the last call of a Console method and the state it found
    reg_last          \* the last call of a registry method and the registry it found

cli_vars == <<cmd_scripts, out, proc_out, sys_stdout, script_path, cmd_pckg_path, game_pos,
              game_exit, last, reg_last>>

to_vars == <<to_buffer, to_buffer_offset, to_buffer_size, to_display_lines, to_display_columns, to_appended,
             to_last>>

ti_vars == <<ti_text, ti_cursor_position, ti_buffer, ti_buffer_offset, ti_buffer_size,
             ti_keyrepeat_counters>>

con_vars == <<enabled, app, console_input, console_output, animation, anim_velocity,
              anim_time, dim_height,
              anim_perc, anim_last_time, ticks, con_last>>

vars == <<cli_vars, to_vars, ti_vars, con_vars>>

(***************************************************************************)
(* Bounds of the model.                                                    *)
(***************************************************************************)
\* lines entered through onecmd in one behaviour
MaxCmds == 2

\* records appended to the output buffer in one behaviour
MaxAppended == 4

\* largest configured TextOutput.buffer_size
MaxOutBufferSize == 3

\* largest configured TextOutput.display_lines
MaxDisplayLines == 2

\* largest configured TextOutput.display_columns
MaxDisplayColumns == 2

\* largest configured TextInput.buffer_size
MaxInBufferSize == 2

\* longest input line typed
MaxTextLen == 2

(***************************************************************************)
(* Python string primitives on sequences of characters.                    *)
(***************************************************************************)
None == "None"

IsSpace(c) == c \in {" ", "\t", "\n"}

Min(a, b) == IF a < b THEN a ELSE b

Max(a, b) == IF a > b THEN a ELSE b

\* str.strip()
Strip(s) ==
    LET keep == {i \in 1..Len(s) : ~IsSpace(s[i])}
    IN  IF keep = {} THEN <<>>
        ELSE LET a == CHOOSE i \in keep : \A j \in keep : i <= j
                 b == CHOOSE i \in keep : \A j \in keep : i >= j
             IN  SubSeq(s, a, b)

\* first index >= i that is past the end or holds a non-space
SkipSpaces(s, i) ==
    CHOOSE j \in i..(Len(s) + 1) :
        /\ (j = Len(s) + 1 \/ ~IsSpace(s[j]))
        /\ \A k \in i..(j - 1) : IsSpace(s[k])

\* first index >= i that is past the end or holds a space
SkipWord(s, i) ==
    CHOOSE j \in i..(Len(s) + 1) :
        /\ (j = Len(s) + 1 \/ IsSpace(s[j]))
        /\ \A k \in i..(j - 1) : ~IsSpace(s[k])

\* str.split() without arguments: the words between runs of whitespace
Split(s) ==
    LET RECURSIVE words(_)
        words(i) ==
            LET a == SkipSpaces(s, i)
            IN  IF a > Len(s) THEN <<>>
                ELSE LET b == SkipWord(s, a)
                     IN  <<SubSeq(s, a, b - 1)>> \o words(b)
    IN  words(1)

\* does pat occur in s at index i
MatchesAt(s, i, pat) ==
    /\ i + Len(pat) - 1 <= Len(s)
    /\ \A k \in 1..Len(pat) : s[i + k - 1] = pat[k]

\* str.replace(old, new) for a non-empty old: leftmost, non-overlapping
Replace(s, old, new) ==
    LET RECURSIVE rep(_)
        rep(i) ==
            IF i > Len(s) THEN <<>>
            ELSE IF MatchesAt(s, i, old) THEN new \o rep(i + Len(old))
            ELSE <<s[i]>> \o rep(i + 1)
    IN  rep(1)

\* str.split(sep) for a one-character sep: the parts, empty ones included
SplitOn(s, sep) ==
    LET RECURSIVE parts(_, _)
        parts(i, acc) ==
            IF i > Len(s) THEN <<acc>>
            ELSE IF s[i] = sep THEN <<acc>> \o parts(i + 1, <<>>)
            ELSE parts(i + 1, Append(acc, s[i]))
    IN  parts(1, <<>>)

\* s.find(c) >= 0
Contains(s, c) == \E i \in 1..Len(s) : s[i] = c

Digits == <<"0", "1", "2", "3", "4", "5", "6", "7", "8", "9">>

IsDigit(c) == \E d \in 1..10 : Digits[d] = c

DigitValue(c) == (CHOOSE d \in 1..10 : Digits[d] = c) - 1

\* int(s) accepts an optional sign and decimal digits; anything else is a ValueError
IsInt(s) ==
    LET body == IF Len(s) > 0 /\ s[1] \in {"-", "+"} THEN Tail(s) ELSE s
    IN  Len(body) > 0 /\ \A i \in 1..Len(body) : IsDigit(body[i])

ParseInt(s) ==
    LET neg == Len(s) > 0 /\ s[1] = "-"
        body == IF Len(s) > 0 /\ s[1] \in {"-", "+"} THEN Tail(s) ELSE s
        RECURSIVE val(_)
        val(n) == IF n = 0 THEN 0 ELSE 10 * val(n - 1) + DigitValue(body[n])
    IN  IF neg THEN 0 - val(Len(body)) ELSE val(Len(body))

\* a loop that never takes a result code for a failure
TruthyNever(r) == FALSE

\* the result codes Python treats as false in "if error:"
Truthy(r) == r \notin {None, "0"}

(***************************************************************************)
(* What is written and what is returned.                                   *)
(*                                                                         *)
(* A text handed to output.write or printed is a record: kind says which   *)
(* statement of the source produced it, and the other fields are the       *)
(* values the source formats into it.                                      *)
(***************************************************************************)
Msg(kind, err, arg, line_no, prints) ==
    [kind |-> kind, err |-> err, arg |-> arg, line_no |-> line_no, prints |-> prints]

\* str(E) of a caught exception
MsgException(exc, msg, arg) == Msg("str(E)", msg, arg, 0, <<exc>>)

\* console_out.getvalue(): what was printed while stdout was redirected
MsgCaptured(prints) == Msg("console_out", "", <<>>, 0, prints)

\* the result of a call: the state it leaves, its return value, and the
\* exception it raises (None when it returns normally) with its message
Result(st, ret, exc, msg, arg) == [st |-> st, ret |-> ret, exc |-> exc, msg |-> msg, arg |-> arg]

Returns(st, ret) == Result(st, ret, None, "", <<>>)

Raises(st, exc, msg, arg) == Result(st, None, exc, msg, arg)

\* self.output.write(m): to the console output, or to the stdout of the
\* process when the processor was built without one
Write(st, m) ==
    [st EXCEPT !.out = Append(@, m),
               !.proc_out = IF st.output = None THEN Append(@, m.kind) ELSE @]

(***************************************************************************)
(* The command modules of the package named by cmd_pckg_path.              *)
(***************************************************************************)
W_move == <<"m", "o", "v", "e">>

W_test == <<"t", "e", "s", "t">>

W_TEST == <<"T", "E", "S", "T">>

W_exit == <<"e", "x", "i", "t">>

W_failing_script == <<"f", "a", "i", "l", "i", "n", "g", "_", "s", "c", "r", "i", "p", "t">>

W_failing_init_cmd == <<"f", "a", "i", "l", "i", "n", "g", "_", "i", "n", "i", "t", "_", "c", "m", "d">>

W_nonexistent_cmd == <<"n", "o", "n", "e", "x", "i", "s", "t", "e", "n", "t", "_", "c", "m", "d">>

\* the modules import_module finds in the package
CommandModules == {W_move, W_test, W_exit, W_failing_script, W_failing_init_cmd}

\* the module whose initialize raises ValueError("Init failed")
InitializeRaises(module_name) == module_name = W_failing_init_cmd

\* the (fnc, alias) pairs the module's initialize hands to register, in order
Initialize(module_name) ==
    IF module_name = W_move THEN <<[fnc |-> "cons_cmd_move", alias |-> module_name]>>
    ELSE IF module_name = W_test
        THEN <<[fnc |-> "cons_cmd_test", alias |-> module_name],
               [fnc |-> "cons_cmd_test", alias |-> W_TEST]>>
    ELSE IF module_name = W_exit THEN <<[fnc |-> "cons_cmd_exit", alias |-> module_name]>>
    ELSE <<[fnc |-> "mock_py_script_fnc", alias |-> module_name]>>

HelpWords == {<<"-", "h">>, <<"-", "-", "h", "e", "l", "p">>, <<"?">>, <<"h", "e", "l", "p">>}

\* TestObject.move: pos[0] is updated before int(move_y) is evaluated
HostMove(st, move_x, move_y) ==
    IF st.app = None
    THEN Raises(st, "AttributeError", "'NoneType' object has no attribute 'move'", <<>>)
    ELSE IF ~IsInt(move_x) THEN Raises(st, "ValueError", "invalid literal for int()", move_x)
    ELSE LET st1 == [st EXCEPT !.game_pos[1] = @ + ParseInt(move_x)]
         IN  IF ~IsInt(move_y)
             THEN Raises(st1, "ValueError", "invalid literal for int()", move_y)
             ELSE Returns([st1 EXCEPT !.game_pos[2] = @ + ParseInt(move_y)], None)

\* a handler prints to the redirected stdout: st.captured collects it
Prints(st, item) == [st EXCEPT !.captured = Append(@, item)]

cons_cmd_move(st, params) ==
    LET all_params == Split(params)
    IN  IF all_params[Len(all_params)] \in HelpWords
        THEN Returns(Prints(st, "instructions"), None)
        ELSE IF Len(all_params) < 3
        THEN Returns(Prints(st, "list index out of range"), "-1")
        ELSE LET r == HostMove(st, all_params[2], all_params[3])
             IN  IF r.exc = None THEN Returns(r.st, None)
                 ELSE Returns(Prints(r.st, r.msg), "-1")

cons_cmd_test(st, params) ==
    LET all_params == Split(params)
        no_of_params == Len(all_params) - 1
    IN  IF all_params[Len(all_params)] \in HelpWords \/ no_of_params < 1
        THEN Returns(Prints(st, "instructions"), None)
        ELSE Returns(Prints(Prints(st, "Parameters"), "Game handler details"), "0")

cons_cmd_exit(st, params) ==
    LET all_params == Split(params)
    IN  IF all_params[Len(all_params)] \in HelpWords
        THEN Returns(Prints(st, "instructions"), None)
        ELSE IF st.app = None
        THEN Raises(st, "AttributeError", "'NoneType' object has no attribute 'exit'", <<>>)
        ELSE Returns(Prints([st EXCEPT !.game_exit = TRUE], "Exiting ..."), "0")

\* the handler of the test suite that raises RuntimeError("Script failed!");
\* called with an argument it first prints "Script output!", the other side
\* effect the suite gives it
mock_py_script_fnc(st, params) ==
    IF Len(Split(params)) > 1
    THEN Raises(Prints(st, "Script output!"), "RuntimeError", "Script failed!", <<>>)
    ELSE Raises(st, "RuntimeError", "Script failed!", <<>>)

\* py_script(game_ctx=self.app, params=params)
CallHandler(fnc, st, params) ==
    IF fnc = "cons_cmd_move" THEN cons_cmd_move(st, params)
    ELSE IF fnc = "cons_cmd_test" THEN cons_cmd_test(st, params)
    ELSE IF fnc = "cons_cmd_exit" THEN cons_cmd_exit(st, params)
    ELSE mock_py_script_fnc(st, params)

(***************************************************************************)
(* CommandLineProcessor: the registry.                                     *)
(***************************************************************************)
\* a registry that keeps the handler an alias already has
_register_commandKeepFirst(reg, fnc, alias) ==
    [a \in (DOMAIN reg) \cup {alias} |-> IF a \in DOMAIN reg THEN reg[a] ELSE fnc]

_register_command(reg, fnc, alias) ==
    [a \in (DOMAIN reg) \cup {alias} |-> IF a = alias THEN fnc ELSE reg[a]]

\* dict.get(name): None when the alias is absent
Lookup(reg, name) == IF name \in DOMAIN reg THEN reg[name] ELSE None

\* str_to_package_module(None, path): the import is attempted, and fails
\* when the package holds no module of that name
Resolve(st, command_module_name) == [st EXCEPT !.resolved = Append(@, command_module_name)]

\* a registration that reports a module it cannot find on the output too
register_commandWritesError(st, command_module_name) ==
    LET st0 == Resolve(st, command_module_name)
    IN  IF st0.cmd_pckg_path = None \/ command_module_name \notin CommandModules
        THEN Raises(Write(st0, Msg("error", "Error during loading of py script command module",
                                   command_module_name, 0, <<>>)),
                    "ValueError", "Error during loading of py script command module",
                    command_module_name)
        ELSE IF InitializeRaises(command_module_name)
        THEN Raises(st0, "ValueError",
                    "Error during initiating/registering of command module",
                    command_module_name)
        ELSE LET regs == Initialize(command_module_name)
                 RECURSIVE apply(_, _)
                 apply(reg, i) ==
                     IF i > Len(regs) THEN reg
                     ELSE apply(_register_command(reg, regs[i].fnc, regs[i].alias), i + 1)
                 st1 == [st0 EXCEPT !.cmd_scripts = apply(@, 1)]
             IN  Returns(st1, Lookup(st1.cmd_scripts, command_module_name))

register_command(st, command_module_name) ==
    LET st0 == Resolve(st, command_module_name)
    IN  IF st0.cmd_pckg_path = None \/ command_module_name \notin CommandModules
        THEN Raises(st0, "ValueError", "Error during loading of py script command module",
                    command_module_name)
        ELSE IF InitializeRaises(command_module_name)
        THEN Raises(st0, "ValueError",
                    "Error during initiating/registering of command module",
                    command_module_name)
        ELSE LET regs == Initialize(command_module_name)
                 RECURSIVE apply(_, _)
                 apply(reg, i) ==
                     IF i > Len(regs) THEN reg
                     ELSE apply(_register_command(reg, regs[i].fnc, regs[i].alias), i + 1)
                 st1 == [st0 EXCEPT !.cmd_scripts = apply(@, 1)]
             IN  Returns(st1, Lookup(st1.cmd_scripts, command_module_name))

\* a lookup that registers the module whether the alias is registered or not
get_commandAlwaysRegisters(st, command_name) == register_command(st, command_name)

get_command(st, command_name) ==
    LET command_fnc == Lookup(st.cmd_scripts, command_name)
    IN  IF command_fnc # None THEN Returns(st, command_fnc)
        ELSE register_command(st, command_name)

(***************************************************************************)
(* CommandLineProcessor: the built-in verbs.                               *)
(***************************************************************************)
W_list == <<"l", "i", "s", "t">>

W_EOF == <<"E", "O", "F">>

W_shell == <<"s", "h", "e", "l", "l">>

W_py_script == <<"p", "y", "_", "s", "c", "r", "i", "p", "t">>

W_script == <<"s", "c", "r", "i", "p", "t">>

W_help == <<"h", "e", "l", "p">>

\* print(text): to the redirect buffer while stdout is redirected, to the
\* process's own stdout otherwise
PrintText(st, m) ==
    IF st.sys_stdout = "StringIO" THEN [st EXCEPT !.captured = Append(@, m)]
    ELSE [st EXCEPT !.proc_out = Append(@, m)]

\* console_out = sys.stdout = StringIO()
Redirect(st) == [st EXCEPT !.sys_stdout = "StringIO", !.captured = <<>>]

\* a restore that leaves the StringIO of the call in place
RestoreNothing(st) == [st EXCEPT !.captured = <<>>]

\* sys.stdout = sys.__stdout__
Restore(st) == [st EXCEPT !.sys_stdout = "__stdout__", !.captured = <<>>]

\* a do_py_script that writes what was printed before it writes str(E)
do_py_scriptWritesCaptured(st, params) ==
    LET st0 == Redirect(st)
        words == Split(params)
        failed(s, exc, msg, arg) ==
            Returns(Restore(Write(Write([s EXCEPT !.py_ret = "-1"], MsgCaptured(s.captured)),
                                  MsgException(exc, msg, arg))), "-1")
    IN  IF words = <<>> THEN failed(st0, "IndexError", "list index out of range", <<>>)
        ELSE LET g == get_command(st0, words[1])
             IN  IF g.exc # None THEN failed(g.st, g.exc, g.msg, g.arg)
                 ELSE IF g.ret = None
                 THEN failed(g.st, "TypeError", "'NoneType' object is not callable", <<>>)
                 ELSE LET h == CallHandler(g.ret, g.st, params)
                          s == [h.st EXCEPT !.handler_ret =
                                    IF h.exc # None THEN "raised" ELSE h.ret]
                      IN  IF h.exc # None THEN failed(s, h.exc, h.msg, h.arg)
                          ELSE Returns(Restore(Write([s EXCEPT !.py_ret = None],
                                                     MsgCaptured(s.captured))), None)

\* do_py_script(params): the handler named by the first word runs with
\* stdout redirected; what it printed is written when it returns, str(E)
\* alone when it raises
do_py_script(st, params) ==
    LET st0 == Redirect(st)
        words == Split(params)
        failed(s, exc, msg, arg) ==
            Returns(Restore(Write([s EXCEPT !.py_ret = "-1"], MsgException(exc, msg, arg))), "-1")
    IN  IF words = <<>> THEN failed(st0, "IndexError", "list index out of range", <<>>)
        ELSE LET g == get_command(st0, words[1])
             IN  IF g.exc # None THEN failed(g.st, g.exc, g.msg, g.arg)
                 ELSE IF g.ret = None
                 THEN failed(g.st, "TypeError", "'NoneType' object is not callable", <<>>)
                 ELSE LET h == CallHandler(g.ret, g.st, params)
                          s == [h.st EXCEPT !.handler_ret =
                                    IF h.exc # None THEN "raised" ELSE h.ret]
                      IN  IF h.exc # None THEN failed(s, h.exc, h.msg, h.arg)
                          ELSE Returns(Restore(Write([s EXCEPT !.py_ret = None],
                                                     MsgCaptured(s.captured))), None)

do_list(st, params) ==
    Returns(Write(Write(st, Msg("Registered commands", "", <<>>, 0, <<>>)),
                  Msg("See the package", "", <<>>, 0, <<>>)), None)

do_EOF(st, params) == do_py_script(st, W_exit)

\* cmd.Cmd.do_help writes the documentation to self.stdout, the output
do_help(st, params) == Returns(Write(st, Msg("help", "", params, 0, <<>>)), None)

(***************************************************************************)
(* do_shell: exec('Result = ' + params) with the host bound to game.       *)
(* The expressions the model enters and what exec does with each.          *)
(***************************************************************************)
X_div == <<"1", "/", "0">>

X_pos == <<"g", "a", "m", "e", ".", "p", "o", "s">>

X_print == <<"p", "r", "i", "n", "t", "(", "1", ")">>

ShellExec(st, params) ==
    IF params = X_div
    THEN [st |-> st, exc |-> "ZeroDivisionError", msg |-> "division by zero", res |-> None]
    ELSE IF params = X_pos
    THEN IF st.app = None
         THEN [st |-> st, exc |-> "AttributeError",
               msg |-> "'NoneType' object has no attribute 'pos'", res |-> None]
         ELSE [st |-> st, exc |-> None, msg |-> "", res |-> "game.pos"]
    ELSE IF params = X_print
    THEN [st |-> PrintText(st, "1"), exc |-> None, msg |-> "", res |-> None]
    ELSE [st |-> st, exc |-> "SyntaxError", msg |-> "invalid syntax", res |-> None]

do_shell(st, params) ==
    LET e == ShellExec(Redirect(st), params)
        s1 == IF e.exc # None THEN Write(e.st, MsgException(e.exc, e.msg, <<>>)) ELSE e.st
        s2 == Write(s1, MsgCaptured(s1.captured))
        s3 == IF e.exc = None /\ e.res # None
              THEN Write(s2, Msg("Result", e.res, <<>>, 0, <<>>)) ELSE s2
    IN  Returns(Restore(s3), IF e.exc # None THEN "-1" ELSE None)

(***************************************************************************)
(* The script files under script_path: name -> the lines of the file.      *)
(* No file runs itself, directly or through another one.                   *)
(***************************************************************************)
F_a == <<"a">>

F_b == <<"b">>

F_c == <<"c">>

F_d == <<"d">>

F_e == <<"e">>

ScriptFiles ==
    (F_a :> << <<"m", "o", "v", "e", " ", "$", "x", " ", "$", "y">>,
               <<"b", "o", "g", "u", "s", "_", "c", "m", "d">> >>)
    @@ (F_b :> << <<"m", "o", "v", "e", " ", "1", " ", "1">>,
                  <<>>,
                  <<"p", "y", "_", "s", "c", "r", "i", "p", "t", " ", "b", "o", "g", "u", "s">>,
                  <<"m", "o", "v", "e", " ", "1", " ", "1">> >>)
    @@ (F_c :> << <<"!", "p", "r", "i", "n", "t", "(", "1", ")">>,
                  <<"!", "1", "/", "0">> >>)
    @@ (F_d :> << <<"m", "o", "v", "e", " ", "2", " ", "2">>,
                  <<"s", "c", "r", "i", "p", "t", " ", "b">>,
                  <<"m", "o", "v", "e", " ", "2", " ", "2">> >>)
    @@ (F_e :> << <<"m", "o", "v", "e", " ", "3", " ", "3">>,
                  <<"s", "c", "r", "i", "p", "t", " ", "a", " ", "a", "=", "b", "=", "c">>,
                  <<"m", "o", "v", "e", " ", "3", " ", "3">> >>)

\* f.readline(): the next line with its newline, the empty string at the end
ReadLine(file, i) == IF i > Len(file) THEN <<>> ELSE file[i] \o <<"\n">>

\* params_dict[param_key] = param_value: a dict keeps the position of a key
DictSet(d, k, v) ==
    IF \E i \in 1..Len(d) : d[i][1] = k
    THEN [i \in 1..Len(d) |-> IF d[i][1] = k THEN <<k, v>> ELSE d[i]]
    ELSE Append(d, <<k, v>>)

\* for param_key, param_value in params_dict.items(): cmd_line.replace('$key', value)
Substitute(cmd_line, params_dict) ==
    LET RECURSIVE sub(_, _)
        sub(line, i) ==
            IF i > Len(params_dict) THEN line
            ELSE sub(Replace(line, <<"$">> \o params_dict[i][1], params_dict[i][2]), i + 1)
    IN  sub(cmd_line, 1)

HasEquals(w) == Contains(w, "=")

\* the key=value words that do not split into exactly two parts
BadParams(all_params) == {i \in 1..Len(all_params) :
    HasEquals(all_params[i]) /\ Len(SplitOn(all_params[i], "=")) # 2}

BuildParamsDict(all_params) ==
    LET params_list == SelectSeq(all_params, HasEquals)
        RECURSIVE build(_, _)
        build(d, i) ==
            IF i > Len(params_list) THEN d
            ELSE LET kv == SplitOn(params_list[i], "=")
                 IN  build(DictSet(d, kv[1], kv[2]), i + 1)
    IN  build(<<>>, 1)

HelpFlags == {<<"-", "h">>, <<"-", "-", "h", "e", "l", "p">>}

VerboseFlags == {<<"-", "v">>, <<"-", "-", "v", "e", "r", "b", "o", "s", "e">>}

IdentChars ==
    {"a", "b", "c", "d", "e", "f", "g", "h", "i", "j", "k", "l", "m", "n", "o", "p", "q", "r",
    "s", "t", "u", "v", "w", "x", "y", "z", "A", "B", "C", "D", "E", "F", "G", "H", "I", "J",
    "K", "L", "M", "N", "O", "P", "Q", "R", "S", "T", "U", "V", "W", "X", "Y", "Z", "0", "1",
    "2", "3", "4", "5", "6", "7", "8", "9", "_"}

RECURSIVE onecmd(_, _)

RECURSIVE RunScriptLines(_, _, _, _, _, _)

\* the while loop of do_script from the line at position i of the file;
\* script_line_no is the variable of that name, error the last result
RunScriptLines(st, script_name, i, script_line_no, error, params_dict) ==
    LET script_line == ReadLine(ScriptFiles[script_name], i)
        line_error(s, err) ==
            Returns(Write(s, Msg("Error on line", err, Strip(script_line), script_line_no, <<>>)), "-1")
        k == Len(st.trace) + 1
        dispatched(r) ==
            LET st2 == [r.st EXCEPT !.trace[k].ret = r.ret, !.trace[k].exc = r.exc,
                                    !.trace[k].pos = r.st.game_pos]
            IN  IF r.exc # None THEN line_error(st2, error)
                ELSE IF Truthy(r.ret) THEN line_error(st2, r.ret)
                ELSE RunScriptLines(st2, script_name, i + 1, script_line_no, r.ret, params_dict)
        run(cmd_line) ==
            CHOOSE y \in {dispatched(r) : r \in
                   {onecmd([st EXCEPT !.trace = Append(@,
                               [file |-> script_name, no |-> i, cmd_line |-> cmd_line,
                                text |-> Strip(script_line), ret |-> "pending", exc |-> None,
                                pos |-> st.game_pos])],
                           cmd_line)}} : TRUE
    IN  IF script_line = <<>> THEN Returns(st, None)
        ELSE CHOOSE y \in {run(cmd_line) :
                            cmd_line \in {Substitute(Strip(script_line), params_dict)}} : TRUE

\* open(script_path): the file system is asked for the file of that name
Open(st, script_name) == [st EXCEPT !.opened = Append(@, script_name)]

do_script(st, params) ==
    LET all_params == Split(params)
        no_of_params == Len(all_params)
    IN  IF no_of_params = 0 \/ all_params[no_of_params] \in HelpFlags
        THEN Returns(PrintText(st, "instructions"), None)
        ELSE LET script_name == all_params[1]
                 verbose_mode == all_params[no_of_params] \in VerboseFlags
                 opening == Open(st, script_name)
             IN  IF st.script_path = None
                 THEN Raises(st, "TypeError", "expected str, bytes or os.PathLike object", <<>>)
                 ELSE IF BadParams(all_params) # {}
                 THEN Raises(st, "ValueError", "wrong number of values to unpack", <<>>)
                 ELSE IF script_name \notin DOMAIN ScriptFiles
                 THEN Returns(Write(opening, Msg("Script file not found", "", script_name, 0, <<>>)),
                              "-1")
                 ELSE IF verbose_mode
                 THEN Returns(Write(opening, Msg("Error loading script file", "", script_name, 0,
                                                 <<>>)), "-1")
                 ELSE RunScriptLines(opening, script_name, 1, 1, None,
                                     BuildParamsDict(all_params))

\* def default(self, line): self.do_py_script(line) -- the result is dropped
default(st, line) == Returns(do_py_script(st, line).st, None)

\* cmd.Cmd.parseline: the line stripped, with ! and ? expanded
ParseLine(line) ==
    LET l0 == Strip(line)
        l1 == IF l0 = <<>> THEN l0
              ELSE IF l0[1] = "?" THEN W_help \o <<" ">> \o Tail(l0)
              ELSE IF l0[1] = "!" THEN W_shell \o <<" ">> \o Tail(l0)
              ELSE l0
        i == CHOOSE j \in 0..Len(l1) :
                 /\ \A k \in 1..j : l1[k] \in IdentChars
                 /\ (j = Len(l1) \/ l1[j + 1] \notin IdentChars)
    IN  [cmd |-> SubSeq(l1, 1, i), arg |-> Strip(SubSeq(l1, i + 1, Len(l1))), line |-> l1]

\* cmd.Cmd.onecmd, with emptyline overridden to do nothing
onecmd(st, line) ==
    LET dispatch(p) ==
            IF p.line = <<>> THEN Returns(st, None)
            ELSE IF p.cmd = <<>> THEN default(st, p.line)
            ELSE IF p.cmd = W_list THEN do_list(st, p.arg)
            ELSE IF p.cmd = W_EOF THEN do_EOF(st, p.arg)
            ELSE IF p.cmd = W_shell THEN do_shell(st, p.arg)
            ELSE IF p.cmd = W_py_script THEN do_py_script(st, p.arg)
            ELSE IF p.cmd = W_script THEN do_script(st, p.arg)
            ELSE IF p.cmd = W_help THEN do_help(st, p.arg)
            ELSE default(st, p.line)
    IN  CHOOSE y \in {dispatch(p) : p \in {ParseLine(line)}} : TRUE

(***************************************************************************)
(* The lines entered through onecmd.                                       *)
(***************************************************************************)
L_unknowncmd == <<"u", "n", "k", "n", "o", "w", "n", "c", "m", "d", " ", "a", "r", "g", "1">>

L_move == <<"m", "o", "v", "e", " ", "1", "0", " ", "2", "0">>

L_move_bad == <<"m", "o", "v", "e", " ", "5">>

L_move_partial == <<"m", "o", "v", "e", " ", "1", " ", "x">>

L_test == <<"t", "e", "s", "t", " ", "1">>

L_TEST == <<"T", "E", "S", "T", " ", "1">>

L_py_bogus == <<"p", "y", "_", "s", "c", "r", "i", "p", "t", " ", "b", "o", "g", "u", "s", "_", "c", "m", "d">>

L_py_move == <<"p", "y", "_", "s", "c", "r", "i", "p", "t", " ", "m", "o", "v", "e", " ", "1", "0", " ", "2", "0">>

L_py_unknowncmd == <<"p", "y", "_", "s", "c", "r", "i", "p", "t", " ", "u", "n", "k", "n", "o", "w", "n", "c", "m", "d", " ", "a", "r", "g", "1">>

L_failing == <<"f", "a", "i", "l", "i", "n", "g", "_", "s", "c", "r", "i", "p", "t">>

L_failing_loud == L_failing \o <<" ", "1">>

L_py_failing_loud == W_py_script \o <<" ">> \o L_failing_loud

L_sh_div == <<"!", "1", "/", "0">>

L_sh_pos == <<"!", "g", "a", "m", "e", ".", "p", "o", "s">>

L_sh_print == <<"!", "p", "r", "i", "n", "t", "(", "1", ")">>

L_script_a == <<"s", "c", "r", "i", "p", "t", " ", "a", " ", "x", "=", "1", "0", " ", "y", "=", "2", "0">>

L_script_b == <<"s", "c", "r", "i", "p", "t", " ", "b">>

L_script_c == <<"s", "c", "r", "i", "p", "t", " ", "c">>

L_script_d == <<"s", "c", "r", "i", "p", "t", " ", "d">>

L_script_e == <<"s", "c", "r", "i", "p", "t", " ", "e">>

L_py_move_bad == <<"p", "y", "_", "s", "c", "r", "i", "p", "t", " ", "m", "o", "v", "e", " ", "5">>

L_script_abc == <<"s", "c", "r", "i", "p", "t", " ", "a", " ", "a", "=", "b", "=", "c">>

L_script_missing == <<"s", "c", "r", "i", "p", "t", " ", "z", "z">>

L_script_help == <<"s", "c", "r", "i", "p", "t", " ", "-", "h">>

L_script_help_long == <<"s", "c", "r", "i", "p", "t", " ", "-", "-", "h", "e", "l", "p">>

L_script_verbose == <<"s", "c", "r", "i", "p", "t", " ", "b", " ", "-", "v">>

L_EOF == <<"E", "O", "F">>

L_list == <<"l", "i", "s", "t">>

L_empty == <<>>

InputLines ==
    {L_unknowncmd,
     L_move,
     L_move_bad,
     L_move_partial,
     L_test,
     L_TEST,
     L_py_bogus,
     L_py_move,
     L_py_unknowncmd,
     L_failing,
     L_failing_loud,
     L_py_failing_loud,
     L_sh_div,
     L_sh_pos,
     L_sh_print,
     L_script_a,
     L_script_b,
     L_script_c,
     L_script_d,
     L_script_e,
     L_py_move_bad,
     L_script_abc,
     L_script_missing,
     L_script_help,
     L_script_help_long,
     L_script_verbose,
     L_EOF,
     L_list,
     L_empty}

(***************************************************************************)
(* The command line processor as a state machine: one action per onecmd    *)
(* call made by the host (Console.update on Enter).                        *)
(***************************************************************************)
\* the processor and host state the calls work on
CliState ==
    [cmd_scripts |-> cmd_scripts, out |-> out, proc_out |-> proc_out,
     sys_stdout |-> sys_stdout, script_path |-> script_path,
     cmd_pckg_path |-> cmd_pckg_path, app |-> app, output |-> console_output,
     game_pos |-> game_pos, game_exit |-> game_exit,
     captured |-> <<>>, trace |-> <<>>, handler_ret |-> "no call", py_ret |-> "no call",
     resolved |-> <<>>, opened |-> <<>>]

\* no registry method has been called yet
NoRegistryCall ==
    [op |-> "none", name |-> <<>>, fnc |-> None, ret |-> None, exc |-> None, msg |-> "",
     reg0 |-> <<>>, mark |-> 0, resolved |-> <<>>, n |-> 0]

\* what sys.stdout is when the host calls: the stream of the process, or a
\* stream the host has installed itself
StdoutTargets == {"__stdout__", "host_stream"}

CliInit ==
    /\ cmd_scripts = <<>>
    /\ out = <<>>
    /\ proc_out = <<>>
    /\ sys_stdout \in StdoutTargets
    /\ script_path \in {None, "scripts"}
    /\ cmd_pckg_path = "console_commands"
    /\ game_pos = <<0, 0>>
    /\ game_exit = FALSE
    /\ last = [line |-> <<>>, ret |-> None, exc |-> None, mark |-> 0, pmark |-> 0,
               trace |-> <<>>, handler_ret |-> "no call", py_ret |-> "no call",
               pos0 |-> <<0, 0>>, reg0 |-> <<>>, stdout0 |-> "__stdout__", opened |-> <<>>,
               n |-> 0]
    /\ reg_last = NoRegistryCall

\* the processor and its host after onecmd(line) ended as r
Dispatched(line, r) ==
    /\ cmd_scripts' = r.st.cmd_scripts
    /\ out' = r.st.out
    /\ proc_out' = r.st.proc_out
    /\ sys_stdout' = r.st.sys_stdout
    /\ game_pos' = r.st.game_pos
    /\ game_exit' = r.st.game_exit
    /\ last' = [line |-> line, ret |-> r.ret, exc |-> r.exc, mark |-> Len(out),
                pmark |-> Len(proc_out), trace |-> r.st.trace,
                handler_ret |-> r.st.handler_ret, py_ret |-> r.st.py_ret,
                pos0 |-> game_pos, reg0 |-> cmd_scripts, stdout0 |-> sys_stdout,
                opened |-> r.st.opened, n |-> last.n + 1]
    /\ UNCHANGED <<script_path, cmd_pckg_path, reg_last>>

\* self.cli.onecmd(line)
OneCmd(line) ==
    /\ last.n < MaxCmds
    /\ \E r \in {onecmd(CliState, line)} : Dispatched(line, r)

CliNext == (\E line \in InputLines : OneCmd(line)) /\ UNCHANGED <<to_vars, ti_vars, con_vars>>

(***************************************************************************)
(* The registry as a state machine: the calls a host, a command module or  *)
(* the processor itself makes on it.                                       *)
(***************************************************************************)
MaxRegCalls == 3

\* the handlers handed to _register_command
Handlers == {"cons_cmd_move", "cons_cmd_test", "mock_py_script_fnc"}

\* the aliases handlers are registered under directly
RegistryAliases == {W_move, W_TEST}

\* the names commands are asked for and modules are registered by
RegistryNames == {W_move, W_test, W_TEST, W_nonexistent_cmd, W_failing_init_cmd}

\* the processor after the registry call op(name) ended as r
RegistryCalled(op, name, fnc, r) ==
    /\ cmd_scripts' = r.st.cmd_scripts
    /\ out' = r.st.out
    /\ proc_out' = r.st.proc_out
    /\ reg_last' = [op |-> op, name |-> name, fnc |-> fnc, ret |-> r.ret, exc |-> r.exc,
                    msg |-> r.msg, reg0 |-> cmd_scripts, mark |-> Len(out),
                    resolved |-> r.st.resolved, n |-> reg_last.n + 1]
    /\ UNCHANGED <<sys_stdout, script_path, cmd_pckg_path, game_pos, game_exit, last>>

\* self._register_command(fnc, alias)
RegisterAlias(fnc, alias) ==
    /\ reg_last.n < MaxRegCalls
    /\ \E r \in {Returns([CliState EXCEPT !.cmd_scripts = _register_command(@, fnc, alias)],
                          None)} :
           RegistryCalled("_register_command", alias, fnc, r)

\* self.register_command(command_module_name)
RegisterCommand(name) ==
    /\ reg_last.n < MaxRegCalls
    /\ \E r \in {register_command(CliState, name)} :
           RegistryCalled("register_command", name, None, r)

\* self.get_command(command_name)
GetCommand(name) ==
    /\ reg_last.n < MaxRegCalls
    /\ \E r \in {get_command(CliState, name)} :
           RegistryCalled("get_command", name, None, r)

RegistryNext ==
    /\ \/ \E fnc \in Handlers, alias \in RegistryAliases : RegisterAlias(fnc, alias)
       \/ \E name \in RegistryNames : RegisterCommand(name)
       \/ \E name \in RegistryNames : GetCommand(name)
    /\ UNCHANGED <<to_vars, ti_vars, con_vars>>

(***************************************************************************)
(* Events of the host's event queue, as pygame delivers them.              *)
(***************************************************************************)
KeyDown(key) == [type |-> "KEYDOWN", key |-> key, text |-> <<>>, button |-> 0]

KeyUp(key) == [type |-> "KEYUP", key |-> key, text |-> <<>>, button |-> 0]

Typed(text) == [type |-> "TEXTINPUT", key |-> "", text |-> text, button |-> 0]

MouseButtonDown(button) == [type |-> "MOUSEBUTTONDOWN", key |-> "", text |-> <<>>, button |-> button]

(***************************************************************************)
(* TextOutput: the bounded buffer of output records and its view offset.   *)
(***************************************************************************)
\* 'tab_spaces': 4
TabSpaces == 4

\* text.replace('\t', self.tab_spaces * ' ')
ExpandTabs(text) ==
    Replace(text, <<"\t">>, [i \in 1..TabSpaces |-> " "])

\* a cut that keeps the first part of the line only
LinePartsTruncated(text_line, display_columns) ==
    <<SubSeq(text_line, 1, Min(display_columns, Len(text_line)))>>

\* [text_line[i:i+display_columns] for i in range(0, len(text_line), display_columns)]
LineParts(text_line, display_columns) ==
    LET RECURSIVE parts(_)
        parts(i) ==
            IF i > Len(text_line) THEN <<>>
            ELSE <<SubSeq(text_line, i, Min(i + display_columns - 1, Len(text_line)))>>
                 \o parts(i + display_columns)
    IN  parts(1)

\* the records one write appends, in order: the parts of every non-empty line
WriteRecords(text, color, font_color, display_columns) ==
    LET text_lines == SplitOn(ExpandTabs(text), "\n")
        col == IF color = None THEN font_color ELSE color
        RECURSIVE recs(_)
        recs(i) ==
            IF i > Len(text_lines) THEN <<>>
            ELSE IF text_lines[i] = <<>> THEN recs(i + 1)
            ELSE LET text_line_parts == LineParts(text_lines[i], display_columns)
                 IN  [j \in 1..Len(text_line_parts) |-> <<text_line_parts[j], col>>]
                     \o recs(i + 1)
    IN  recs(1)

\* an append that drops the new record once the buffer is full
BufferAppendDropNewest(buffer, record, buffer_size) ==
    IF Len(buffer) >= buffer_size THEN buffer ELSE Append(buffer, record)

\* self.buffer.append(record), then the removal of the oldest row
BufferAppend(buffer, record, buffer_size) ==
    LET appended == Append(buffer, record)
    IN  IF Len(appended) > buffer_size
        THEN SubSeq(appended, 2, Len(appended))
        ELSE appended

\* TextOutput.write: the buffer after the records of text are appended
TextOutputWrite(buffer, text, color, buffer_size, display_columns) ==
    LET records == WriteRecords(text, color, "font_color", display_columns)
        RECURSIVE put(_, _)
        put(buf, i) ==
            IF i > Len(records) THEN buf
            ELSE put(BufferAppend(buf, records[i], buffer_size), i + 1)
    IN  put(buffer, 1)

\* TextOutput.prepare_surface: the records rendered into surf_lines, those at
\* range(buffer_offset, min(len(buffer), buffer_offset + display_lines))
prepare_surface(buffer, buffer_offset, display_lines) ==
    SubSeq(buffer, buffer_offset + 1, Min(Len(buffer), buffer_offset + display_lines))

\* one event of the loop of TextOutput.update: the new buffer_offset
TextOutputEvent(buffer_offset, buffer, display_lines, event) ==
    IF event.type = "KEYDOWN" /\ event.key = "K_PAGEUP"
    THEN Max(0, buffer_offset - display_lines)
    ELSE IF event.type = "KEYDOWN" /\ event.key = "K_PAGEDOWN"
    THEN Min(Max(0, Len(buffer) - display_lines), buffer_offset + display_lines)
    ELSE IF event.type = "KEYDOWN" /\ event.key = "K_RETURN"
    THEN Max(0, Len(buffer) - display_lines)
    ELSE IF event.type = "MOUSEBUTTONDOWN" /\ event.button = 4
    THEN Max(0, buffer_offset - 1)
    ELSE IF event.type = "MOUSEBUTTONDOWN" /\ event.button = 5
    THEN Min(Max(0, Len(buffer) - 1), buffer_offset + 1)
    ELSE buffer_offset

\* TextOutput.update(events)
TextOutputUpdate(buffer_offset, buffer, display_lines, events) ==
    LET RECURSIVE loop(_, _)
        loop(off, i) ==
            IF i > Len(events) THEN off
            ELSE loop(TextOutputEvent(off, buffer, display_lines, events[i]), i + 1)
    IN  loop(buffer_offset, 1)

\* the texts written and the events delivered to the output
OutputTexts ==
    {<<>>, <<"a">>, <<"b">>, <<"a", "b">>, <<"a", "\n", "b">>, <<"\n", "b", "\n">>,
     <<"a", "\t">>}

OutputEvents ==
    {KeyDown("K_PAGEUP"), KeyDown("K_PAGEDOWN"), KeyDown("K_RETURN"), KeyDown("K_LEFT"),
     MouseButtonDown(4), MouseButtonDown(5)}

\* the batches of events handed to update: none, one, or two wheel or page moves
OutputBatches ==
    {<<>>} \cup {<<e>> : e \in OutputEvents}
    \cup {<<MouseButtonDown(5), MouseButtonDown(5)>>, <<KeyDown("K_PAGEDOWN"), MouseButtonDown(4)>>}

\* the call op made on the output, the text it was given and the number of
\* records appended before it
OutputCalled(op, text, mark) == [op |-> op, text |-> text, mark |-> mark]

TextOutputInit ==
    /\ to_buffer = <<>>
    /\ to_buffer_offset = 0
    /\ to_buffer_size \in 1..MaxOutBufferSize
    /\ to_display_lines \in 1..MaxDisplayLines
    /\ to_display_columns \in 1..MaxDisplayColumns
    /\ to_appended = <<>>
    /\ to_last = OutputCalled("none", <<>>, 0)

\* Console.write(text, color): the write, then prepare_surface, which renders
\* the page at the buffer_offset it finds
OutputWrite(text, color) ==
    /\ LET records == WriteRecords(text, color, "font_color", to_display_columns)
       IN  /\ Len(to_appended) + Len(records) <= MaxAppended
           /\ to_appended' = to_appended \o records
    /\ to_buffer' = TextOutputWrite(to_buffer, text, color, to_buffer_size, to_display_columns)
    /\ to_last' = OutputCalled("write", text, Len(to_appended))
    /\ UNCHANGED <<to_buffer_offset, to_buffer_size, to_display_lines, to_display_columns>>

\* self.console_output.update(events)
OutputUpdate(events) ==
    /\ to_buffer_offset' = TextOutputUpdate(to_buffer_offset, to_buffer, to_display_lines, events)
    /\ to_last' = OutputCalled("update", <<>>, 0)
    /\ UNCHANGED <<to_buffer, to_buffer_size, to_display_lines, to_display_columns, to_appended>>

\* Console.clear(): a fresh list is bound to the attribute log of the output,
\* which nothing reads, and prepare_surface renders the buffer as it is
ConsoleClear ==
    /\ console_output # None
    /\ to_last' = OutputCalled("clear", <<>>, 0)
    /\ UNCHANGED <<to_buffer, to_buffer_offset, to_buffer_size, to_display_lines,
                   to_display_columns, to_appended>>

OutputNext ==
    /\ \/ \E text \in OutputTexts : OutputWrite(text, None)
       \/ \E events \in OutputBatches : OutputUpdate(events)
       \/ ConsoleClear
    /\ UNCHANGED <<cli_vars, ti_vars, con_vars>>

(***************************************************************************)
(* TextInput: the edited line, its cursor and the history of submitted     *)
(* lines.  A TextInput state is the record of the fields update changes.   *)
(***************************************************************************)
TextInputState ==
    [text |-> ti_text, cursor_position |-> ti_cursor_position,
     buffer |-> ti_buffer, buffer_offset |-> ti_buffer_offset,
     keyrepeat_counters |-> ti_keyrepeat_counters, posted |-> {}]

\* 'repeat_keys_initial_ms' : 400
RepeatKeysInitialMs == 400

\* 'repeat_keys_interval_ms': 35
RepeatKeysIntervalMs == 35

\* self.clock.get_time(): the milliseconds between the last two ticks of
\* the clock of the input, none or enough to fire a repeat
ClockTimes == {0, RepeatKeysInitialMs}

\* if event.key not in self.keyrepeat_counters: a counter for the key
KeyRepeatArm(ti, key) ==
    IF key \in DOMAIN ti.keyrepeat_counters THEN ti
    ELSE [ti EXCEPT !.keyrepeat_counters = @ @@ (key :> 0)]

\* the KEYUP branch: del self.keyrepeat_counters[event.key]
KeyRepeatDisarm(ti, key) ==
    [ti EXCEPT !.keyrepeat_counters = [k \in (DOMAIN @) \ {key} |-> @[k]]]

\* the loop over self.keyrepeat_counters: every counter advances by the
\* clock time, and one that reaches the initial delay posts a KEYDOWN of
\* its key and restarts one interval short of it
KeyRepeatClock(ti, clock_time) ==
    LET due == {k \in DOMAIN ti.keyrepeat_counters :
                    ti.keyrepeat_counters[k] + clock_time >= RepeatKeysInitialMs}
    IN  [ti EXCEPT !.keyrepeat_counters =
                       [k \in DOMAIN @ |-> IF k \in due
                                           THEN RepeatKeysInitialMs - RepeatKeysIntervalMs
                                           ELSE @[k] + clock_time],
                   !.posted = due]

\* an Enter that drops the oldest entry and leaves buffer_offset behind it
TextInputEnterNoAdjust(ti, buffer_size) ==
    IF ti.text = <<>> THEN ti
    ELSE LET appended == Append(ti.buffer, ti.text)
         IN  IF Len(appended) > buffer_size
             THEN [ti EXCEPT !.buffer = SubSeq(appended, 2, Len(appended)),
                             !.buffer_offset = Len(appended)]
             ELSE [ti EXCEPT !.buffer = appended, !.buffer_offset = Len(appended)]

\* the K_RETURN / K_KP_ENTER branch: the text goes to the history
TextInputEnter(ti, buffer_size) ==
    IF ti.text = <<>> THEN ti
    ELSE LET appended == Append(ti.buffer, ti.text)
         IN  IF Len(appended) > buffer_size
             THEN [ti EXCEPT !.buffer = SubSeq(appended, 2, Len(appended)),
                             !.buffer_offset = Len(appended) - 2]
             ELSE [ti EXCEPT !.buffer = appended, !.buffer_offset = Len(appended)]

\* the K_UP branch, "Calc new buffer position": one back unless at 0, then
\* one forward when that is the length of the history
HistoryUpOffset(buffer, buffer_offset) ==
    LET o1 == IF buffer_offset >= 1 THEN buffer_offset - 1 ELSE buffer_offset
    IN  IF Len(buffer) = o1 THEN o1 + 1 ELSE o1

\* the K_UP branch: recall the previous history entry
TextInputHistoryUp(ti) ==
    IF Len(ti.buffer) > 0
    THEN LET o2 == HistoryUpOffset(ti.buffer, ti.buffer_offset)
         IN  [ti EXCEPT !.buffer_offset = o2,
                        !.text = ti.buffer[o2 + 1],
                        !.cursor_position = Len(ti.buffer[o2 + 1])]
    ELSE ti

\* the K_DOWN branch: recall the next history entry
TextInputHistoryDown(ti) ==
    IF ti.buffer_offset < Len(ti.buffer) - 1
    THEN [ti EXCEPT !.buffer_offset = ti.buffer_offset + 1,
                    !.text = ti.buffer[ti.buffer_offset + 2],
                    !.cursor_position = Len(ti.buffer[ti.buffer_offset + 2])]
    ELSE ti

\* a backspace that moves the cursor without the max(..., 0)
TextInputBackspaceUnclamped(ti) ==
    [ti EXCEPT !.text = SubSeq(ti.text, 1, ti.cursor_position - 1)
                        \o SubSeq(ti.text, ti.cursor_position + 1, Len(ti.text)),
               !.cursor_position = ti.cursor_position - 1]

\* the K_BACKSPACE branch
TextInputBackspace(ti) ==
    [ti EXCEPT !.text = SubSeq(ti.text, 1, Max(ti.cursor_position - 1, 0))
                        \o SubSeq(ti.text, ti.cursor_position + 1, Len(ti.text)),
               !.cursor_position = Max(ti.cursor_position - 1, 0)]

\* the K_DELETE branch
TextInputDelete(ti) ==
    [ti EXCEPT !.text = SubSeq(ti.text, 1, ti.cursor_position)
                        \o SubSeq(ti.text, ti.cursor_position + 2, Len(ti.text))]

\* the TEXTINPUT branch: insert at the cursor unless the line is full
TextInputInsert(ti, text, max_input_text) ==
    IF Len(ti.text) < max_input_text
    THEN [ti EXCEPT !.text = SubSeq(ti.text, 1, ti.cursor_position) \o text
                             \o SubSeq(ti.text, ti.cursor_position + 1, Len(ti.text)),
                    !.cursor_position = ti.cursor_position + Len(text)]
    ELSE ti

EnterKeys == {"K_RETURN", "K_KP_ENTER"}

\* one event of the loop of TextInput.update, Enter excepted
TextInputEvent(ti0, event, max_input_text) ==
    IF event.type = "KEYDOWN" THEN
        LET ti == KeyRepeatArm(ti0, event.key)
        IN  IF event.key = "K_BACKSPACE" THEN TextInputBackspace(ti)
            ELSE IF event.key = "K_DELETE" THEN TextInputDelete(ti)
            ELSE IF event.key = "K_RIGHT"
            THEN [ti EXCEPT !.cursor_position = Min(ti.cursor_position + 1, Len(ti.text))]
            ELSE IF event.key = "K_LEFT"
            THEN [ti EXCEPT !.cursor_position = Max(ti.cursor_position - 1, 0)]
            ELSE IF event.key = "K_END" THEN [ti EXCEPT !.cursor_position = Len(ti.text)]
            ELSE IF event.key = "K_HOME" THEN [ti EXCEPT !.cursor_position = 0]
            ELSE IF event.key = "K_UP" THEN TextInputHistoryUp(ti)
            ELSE IF event.key = "K_DOWN" THEN TextInputHistoryDown(ti)
            ELSE ti
    ELSE IF event.type = "TEXTINPUT" THEN TextInputInsert(ti0, event.text, max_input_text)
    ELSE IF event.type = "KEYUP" THEN KeyRepeatDisarm(ti0, event.key)
    ELSE ti0

\* an update that lets the key-repeat loop and the clock run after Enter
TextInputUpdateClocked(ti, events, buffer_size, max_input_text, clock_time) ==
    LET RECURSIVE loop(_, _)
        loop(t, i) ==
            IF i > Len(events)
            THEN [ti |-> KeyRepeatClock(t, clock_time), entered |-> FALSE, ticked |-> TRUE]
            ELSE IF events[i].type = "KEYDOWN" /\ events[i].key \in EnterKeys
            THEN [ti |-> KeyRepeatClock(TextInputEnter(KeyRepeatArm(t, events[i].key),
                                                       buffer_size),
                                        clock_time),
                  entered |-> TRUE, ticked |-> TRUE]
            ELSE loop(TextInputEvent(t, events[i], max_input_text), i + 1)
    IN  loop(ti, 1)

\* TextInput.update(events): the state it leaves and whether it returned
\* True and whether it came to self.clock.tick().  Enter returns at once:
\* the events after it, the key-repeat loop and the tick of the clock are
\* skipped.
TextInputUpdate(ti, events, buffer_size, max_input_text, clock_time) ==
    LET RECURSIVE loop(_, _)
        loop(t, i) ==
            IF i > Len(events)
            THEN [ti |-> KeyRepeatClock(t, clock_time), entered |-> FALSE, ticked |-> TRUE]
            ELSE IF events[i].type = "KEYDOWN" /\ events[i].key \in EnterKeys
            THEN [ti |-> TextInputEnter(KeyRepeatArm(t, events[i].key), buffer_size),
                  entered |-> TRUE, ticked |-> FALSE]
            ELSE loop(TextInputEvent(t, events[i], max_input_text), i + 1)
    IN  loop(ti, 1)

\* TextInput.clear_text
clear_text(ti) == [ti EXCEPT !.text = <<>>, !.cursor_position = 0]

InputEvents ==
    {KeyDown("K_BACKSPACE"), KeyDown("K_DELETE"), KeyDown("K_RETURN"), KeyDown("K_KP_ENTER"),
     KeyDown("K_RIGHT"), KeyDown("K_LEFT"), KeyDown("K_END"), KeyDown("K_HOME"),
     KeyDown("K_UP"), KeyDown("K_DOWN"), KeyUp("K_LEFT"),
     Typed(<<"a">>)}

\* a batch in which every key pressed is released again: the events, then
\* the KEYUP of each KEYDOWN among them
Released(events) ==
    LET IsKeyDown(e) == e.type = "KEYDOWN"
        downs == SelectSeq(events, IsKeyDown)
    IN  events \o [i \in 1..Len(downs) |-> KeyUp(downs[i].key)]

\* the batches of events handed to update: none, one event or one of these
\* pairs with the keys released in the same batch, and K_RETURN pressed in
\* one batch and released in a later one
InputBatches ==
    {<<>>} \cup {Released(<<e>>) : e \in InputEvents}
    \cup {Released(<<KeyDown("K_UP"), KeyDown("K_DOWN")>>),
          Released(<<KeyDown("K_UP"), KeyDown("K_UP")>>),
          Released(<<Typed(<<"a">>), KeyDown("K_RETURN")>>),
          Released(<<KeyDown("K_RETURN"), Typed(<<"a">>)>>)}
    \cup {<<KeyDown("K_RETURN")>>, <<KeyUp("K_RETURN")>>}

TextInputInit ==
    /\ ti_text = <<>>
    /\ ti_cursor_position = 0
    /\ ti_buffer = <<>>
    /\ ti_buffer_offset = 0
    /\ ti_buffer_size \in 1..MaxInBufferSize
    /\ ti_keyrepeat_counters = <<>>

\* the input part of Console.update(events): TextInput.update and, when it
\* returned True, clear_text once the line is processed
InputUpdate(events) ==
    \E clock_time \in ClockTimes :
    \E r \in {TextInputUpdate(TextInputState, events, ti_buffer_size, MaxTextLen,
                              clock_time)} :
        LET t == IF r.entered THEN clear_text(r.ti) ELSE r.ti
        IN  /\ ti_text' = t.text
            /\ ti_cursor_position' = t.cursor_position
            /\ ti_buffer' = t.buffer
            /\ ti_buffer_offset' = t.buffer_offset
            /\ ti_keyrepeat_counters' = t.keyrepeat_counters
            /\ UNCHANGED ti_buffer_size

InputNext == (\E events \in InputBatches : InputUpdate(events)) /\ UNCHANGED <<cli_vars, to_vars, con_vars>>

(***************************************************************************)
(* Console: the switch, the show/hide animation and the calls it forwards  *)
(* to its parts.                                                           *)
(***************************************************************************)
\* the heights of the console in pixels, and the ms its animation entry gives
Heights == {20, 100}

AnimTimes == {10}

\* self.anim_velocity = self.dim[1] / self.anim_time (the heights divide evenly)
AnimVelocity(height, time) == height \div time

\* the animation velocities of these consoles
AnimVelocities == {AnimVelocity(h, t) : h \in Heights, t \in AnimTimes}

\* the host's clock moves on by one of these between two calls
TickSteps == {5, 15}

\* the clock is followed up to here
MaxTicks == 30

\* the argument of toggle: flip, force on, force off
ToggleArgs == {None, "True", "False"}

\* what con_last holds before the first call
NoCall ==
    [op |-> "__init__", at |-> 0, exc |-> None, enabled0 |-> FALSE, held0 |-> {},
     had_perc |-> FALSE,
     perc0 |-> 0, elapsed |-> 0, animated |-> FALSE, shown |-> FALSE, toggled |-> FALSE, toggled_at |-> 0,
     rest |-> 0, shows |-> 0]

\* the record of a call of method op made now: op, the time of the call and
\* what it raised; for a show, enabled as it found it, whether anim_perc
\* was assigned and its value, the ms since anim_last_time and whether it
\* ran the animation; for a toggle, the keys held when it was called;
\* whether show was ever called; and of the last toggle: its time, the ms
\* the animation had rested before it and the calls of show since (counted
\* up to three)
Called(op, exc, animated) ==
    LET show == op = "show"
        had_perc == animation \/ con_last.shown
    IN  [con_last EXCEPT
            !.op = op, !.at = ticks, !.exc = exc,
            !.enabled0 = show /\ enabled,
            !.held0 = IF op = "toggle" THEN DOMAIN ti_keyrepeat_counters ELSE {},
            !.had_perc = show /\ had_perc,
            !.perc0 = IF show /\ had_perc THEN anim_perc ELSE 0,
            !.elapsed = IF show /\ animation THEN ticks - anim_last_time ELSE 0,
            !.animated = show /\ animated,
            !.shown = @ \/ show,
            !.toggled = @ \/ op = "toggle",
            !.toggled_at = IF op = "toggle" THEN ticks ELSE @,
            !.rest = IF op = "toggle"
                     THEN (IF animation THEN ticks - anim_last_time ELSE 0)
                     ELSE @,
            !.shows = IF op = "toggle" THEN 0
                      ELSE IF show /\ @ < 3 THEN @ + 1 ELSE @]

\* Console.show without the correction at either end
ClampNothing(perc) == perc

\* Console.show: anim_perc kept inside 0..100
Clamp(perc) == IF perc > 100 THEN 100 ELSE IF perc < 0 THEN 0 ELSE perc

\* Console.show: the animation is on its way (not at rest)
AnimMoving(on, perc) == (on /\ perc < 100) \/ (~on /\ perc > 0)

\* Console.show moving anim_perc the wrong way
AnimAdvanceAway(on, perc, elapsed, velocity) ==
    perc - (IF on THEN 1 ELSE -1) * elapsed * velocity

\* Console.show: anim_perc after current_time - last_time ms
AnimAdvance(on, perc, elapsed, velocity) ==
    perc + (IF on THEN 1 ELSE -1) * elapsed * velocity

\* Console.show leaving anim_last_time as it was
ShowTimeStale(moving, current_time, last_time) == last_time

\* Console.show: self.anim_last_time = current_time, inside the branch of an
\* animation on its way
ShowTime(moving, current_time, last_time) ==
    IF moving THEN current_time ELSE last_time

\* Console.toggle leaving anim_last_time as it was
ToggleTimeStale(current_time, last_time) == last_time

\* Console.toggle: the time the animation counts from after a toggle
ToggleTime(current_time, last_time) == current_time

\* the state of Console.__init__(config) for the animation: hidden, and when
\* animated nothing shown yet
ConsoleAnimInit ==
    /\ enabled = FALSE
    /\ animation \in BOOLEAN
    /\ IF animation
       THEN /\ dim_height \in Heights
            /\ anim_time \in AnimTimes
            /\ anim_velocity = AnimVelocity(dim_height, anim_time)
            /\ anim_last_time = 0 /\ anim_perc = 0
       ELSE /\ dim_height = 100
            /\ anim_time = None /\ anim_velocity = None
            /\ anim_last_time = None /\ anim_perc = None
    /\ ticks = 0
    /\ con_last = NoCall

\* time passes in the host between two calls
Tick(elapsed) ==
    /\ ticks + elapsed <= MaxTicks
    /\ ticks' = ticks + elapsed
    /\ UNCHANGED <<enabled, app, console_input, console_output, animation, anim_velocity, anim_time, dim_height,
                   anim_perc, anim_last_time, con_last>>

\* Console.show(surf, pos, disable_anim)
ConsoleShow(disable_anim) ==
    /\ IF ~animation \/ disable_anim
       THEN /\ anim_perc' = IF enabled THEN 100 ELSE 0
            /\ UNCHANGED anim_last_time
       ELSE LET current_time == ticks
                moving == AnimMoving(enabled, anim_perc)
            IN  /\ anim_perc' = Clamp(IF moving
                                      THEN AnimAdvance(enabled, anim_perc,
                                                       current_time - anim_last_time,
                                                       anim_velocity)
                                      ELSE anim_perc)
                /\ anim_last_time' = ShowTime(moving, current_time, anim_last_time)
    /\ con_last' = Called("show", None, animation /\ ~disable_anim)
    /\ UNCHANGED <<enabled, app, console_input, console_output, animation, anim_velocity, anim_time, dim_height,
                   ticks>>

\* a toggle that leaves the counters as they are
KeyRepeatKeep(counters) == counters

\* self.console_input.keyrepeat_counters.clear()
KeyRepeatClear(counters) == <<>>

\* Console.toggle(enable); without an input part the last statement raises
\* AttributeError, after the switch and the time were set
ConsoleToggle(enable) ==
    /\ enabled' = IF enable = None THEN ~enabled ELSE (enable = "True")
    /\ anim_last_time' = IF animation THEN ToggleTime(ticks, anim_last_time)
                         ELSE anim_last_time
    /\ IF console_input # None
       THEN ti_keyrepeat_counters' = KeyRepeatClear(ti_keyrepeat_counters)
       ELSE UNCHANGED ti_keyrepeat_counters
    /\ con_last' = Called("toggle",
                          IF console_input # None THEN None ELSE "AttributeError",
                          animation)
    /\ UNCHANGED <<app, console_input, console_output, animation, anim_velocity, anim_time, dim_height,
                   anim_perc, ticks>>
    /\ UNCHANGED <<ti_text, ti_cursor_position, ti_buffer, ti_buffer_offset, ti_buffer_size>>

\* str(m) as the processor hands it to console_output.write, cut down to one
\* character; nothing when the call printed nothing
Render(m) == IF m.kind = "console_out" /\ m.prints = <<>> THEN <<>> ELSE <<"*">>

\* console_output.write of each of the texts in turn: the buffer afterwards
WriteAll(buffer, texts, colors, buffer_size, display_columns) ==
    LET RECURSIVE put(_, _)
        put(buf, i) ==
            IF i > Len(texts) THEN buf
            ELSE put(TextOutputWrite(buf, texts[i], colors[i], buffer_size, display_columns),
                     i + 1)
    IN  put(buffer, 1)

\* the records these writes append, in order
RecordsOfAll(texts, colors, display_columns) ==
    LET RECURSIVE recs(_)
        recs(i) ==
            IF i > Len(texts) THEN <<>>
            ELSE WriteRecords(texts[i], colors[i], "font_color", display_columns) \o recs(i + 1)
    IN  recs(1)

\* the batches of events the host hands to Console.update: a line typed,
\* a line typed and entered, Enter pressed, Enter released, a history
\* recall, a page of the output
ConsoleBatches ==
    {<<>>,
     <<Typed(L_test)>>,
     <<Typed(L_script_c), KeyDown("K_RETURN")>>,
     <<KeyDown("K_RETURN")>>,
     <<KeyDown("K_KP_ENTER")>>,
     <<KeyUp("K_RETURN")>>,
     Released(<<KeyDown("K_UP")>>),
     Released(<<KeyDown("K_PAGEUP")>>)}

\* Console.update(events): nothing while disabled; else the input takes the
\* events and, on Enter, the line is echoed to the output, dispatched and
\* cleared; then the output takes the events.  An exception that leaves
\* onecmd leaves update at that point.
ConsoleUpdate(events) ==
    IF ~enabled
    THEN /\ con_last' = Called("update", None, FALSE)
         /\ UNCHANGED <<enabled, app, console_input, console_output, animation,
                        anim_velocity, anim_time, dim_height, anim_perc, anim_last_time, ticks>>
         /\ UNCHANGED <<cli_vars, to_vars, ti_vars>>
    ELSE \E clock_time \in ClockTimes :
         \E r \in {IF console_input # None
                   THEN TextInputUpdate(TextInputState, events, ti_buffer_size, MaxTextLen,
                                        clock_time)
                   ELSE [ti |-> TextInputState, entered |-> FALSE, ticked |-> FALSE]} :
         \E c \in {IF r.entered THEN onecmd(CliState, r.ti.text)
                   ELSE Returns(CliState, None)} :
        LET line == r.ti.text
            written == SubSeq(c.st.out, Len(out) + 1, Len(c.st.out))
            texts == IF r.entered /\ console_output # None
                     THEN <<line>> \o [i \in 1..Len(written) |-> Render(written[i])]
                     ELSE <<>>
            colors == [i \in 1..Len(texts) |-> IF i = 1 THEN "input.font_color" ELSE None]
            t == IF r.entered /\ c.exc = None THEN clear_text(r.ti) ELSE r.ti
        IN  /\ r.entered => last.n < MaxCmds
            /\ IF r.entered THEN Dispatched(line, c) ELSE UNCHANGED cli_vars
            /\ ti_text' = t.text
            /\ ti_cursor_position' = t.cursor_position
            /\ ti_buffer' = t.buffer
            /\ ti_buffer_offset' = t.buffer_offset
            /\ ti_keyrepeat_counters' = t.keyrepeat_counters
            /\ to_buffer' = WriteAll(to_buffer, texts, colors, to_buffer_size,
                                     to_display_columns)
            /\ to_appended' = to_appended \o RecordsOfAll(texts, colors, to_display_columns)
            /\ to_buffer_offset' =
                   IF console_output # None /\ c.exc = None
                   THEN TextOutputUpdate(to_buffer_offset, to_buffer', to_display_lines,
                                         events)
                   ELSE to_buffer_offset
            /\ con_last' = Called("update", c.exc, FALSE)
            /\ UNCHANGED <<ti_buffer_size, to_buffer_size, to_display_lines, to_display_columns,
                           to_last>>
            /\ UNCHANGED <<enabled, app, console_input, console_output, animation,
                           anim_velocity, anim_time, dim_height, anim_perc, anim_last_time, ticks>>

\* a new configuration handed to Console.init: the buffer_size of the input
\* and of the output section (0: the section is left out), the ms the
\* animation entry gives (0: no animation), and the app argument; the
\* width and the sections' heights are the ones the console was built with
Config(input, output, time, app_arg) ==
    [input |-> input, output |-> output, animation |-> time, app |-> app_arg]

\* both parts again at their largest; a smaller input, animated, app left
\* at its default; neither an input nor an output section
ConsoleConfigs ==
    {Config(MaxInBufferSize, MaxOutBufferSize, 0, "game"),
     Config(1, MaxOutBufferSize, 10, None),
     Config(0, 0, 0, "game")}

\* an init that puts nothing back
PutBackNothing(part, section, kept, fresh) == fresh

\* buffer_bckp / buffer_offset_bckp of Console.init: the value of the part
\* that was there goes into the part built from its section; the backup of
\* no part, and the assignment to no part, raise AttributeError and the
\* handler builds the part from the section alone
PutBack(part, section, kept, fresh) ==
    IF part # None /\ section > 0 THEN kept ELSE fresh

\* Console.init(width, config, app) on a live console: the parts are built
\* anew from config, buffer and buffer_offset of a part that was there and
\* is configured again are put back; a new CommandLineProcessor is built;
\* the animation starts over
ConsoleInit(config) ==
    /\ con_last' = Called("init", None, FALSE)
    /\ app' = config.app
    /\ animation' = (config.animation > 0)
    /\ IF config.animation > 0
       THEN /\ anim_time' = config.animation
            /\ anim_velocity' = AnimVelocity(dim_height, config.animation)
            /\ anim_last_time' = 0 /\ anim_perc' = 0
       ELSE UNCHANGED <<anim_time, anim_velocity, anim_last_time, anim_perc>>
    /\ UNCHANGED dim_height
    /\ console_input' = IF config.input > 0 THEN "TextInput" ELSE None
    /\ ti_text' = <<>>
    /\ ti_cursor_position' = 0
    /\ ti_keyrepeat_counters' = <<>>
    /\ ti_buffer_size' = IF config.input > 0 THEN config.input ELSE 1
    /\ ti_buffer' = PutBack(console_input, config.input, ti_buffer, <<>>)
    /\ ti_buffer_offset' = PutBack(console_input, config.input, ti_buffer_offset, 0)
    /\ console_output' = IF config.output > 0 THEN "TextOutput" ELSE None
    /\ to_buffer_size' = IF config.output > 0 THEN config.output ELSE 1
    /\ to_buffer' = PutBack(console_output, config.output, to_buffer, <<>>)
    /\ to_buffer_offset' = PutBack(console_output, config.output, to_buffer_offset, 0)
    /\ cmd_scripts' = <<>>
    /\ cmd_pckg_path' = IF config.output > 0 THEN "console_commands" ELSE None
    /\ script_path' = None
    /\ UNCHANGED <<enabled, ticks, to_display_lines, to_display_columns, to_appended, to_last>>
    /\ UNCHANGED <<out, proc_out, sys_stdout, game_pos, game_exit, last, reg_last>>

\* the host's loop around a live console: events, toggles, reconfigurations
ConsoleNext ==
    \/ \E events \in ConsoleBatches : ConsoleUpdate(events)
    \/ \E enable \in ToggleArgs : ConsoleToggle(enable) /\ UNCHANGED <<cli_vars, to_vars>>
    \/ \E config \in ConsoleConfigs : ConsoleInit(config)

\* the host's loop around an animated or a plain console
AnimNext ==
    /\ \/ \E elapsed \in TickSteps : Tick(elapsed) /\ UNCHANGED ti_vars
       \/ \E enable \in ToggleArgs : ConsoleToggle(enable)
       \/ \E disable_anim \in BOOLEAN : ConsoleShow(disable_anim) /\ UNCHANGED ti_vars
    /\ UNCHANGED <<cli_vars, to_vars>>

(***************************************************************************)
(* Specifications.                                                         *)
(***************************************************************************)
\* the output and the input as configured with their smallest sizes
TextOutputSmallest == TextOutputInit /\ to_buffer_size = 1 /\ to_display_lines = 1 /\ to_display_columns = 1

TextInputSmallest == TextInputInit /\ ti_buffer_size = 1

\* the console around them: both parts configured, the host attached
ConsoleParts ==
    /\ app = "game"
    /\ console_input = "TextInput"
    /\ console_output = "TextOutput"

\* a console that is not animated, as constructed
ConsolePlain == ConsoleParts /\ ConsoleAnimInit /\ animation = FALSE

\* the command line processor, entered line by line
InitCli == CliInit /\ TextOutputSmallest /\ TextInputSmallest /\ ConsolePlain

SpecCli == InitCli /\ [][CliNext]_vars

\* the registry of the command line processor, called directly
InitRegistry == CliInit /\ script_path = None /\ sys_stdout = "__stdout__" /\ TextOutputSmallest
                /\ TextInputSmallest /\ ConsolePlain

SpecRegistry == InitRegistry /\ [][RegistryNext]_vars

\* the output buffer, under every configuration within the bounds
InitOutput == CliInit /\ script_path = None /\ sys_stdout = "__stdout__" /\ TextOutputInit /\ TextInputSmallest
              /\ ConsolePlain

SpecOutput == InitOutput /\ [][OutputNext]_vars

\* the input line, under every configuration within the bounds
InitInput == CliInit /\ script_path = None /\ sys_stdout = "__stdout__" /\ TextOutputSmallest /\ TextInputInit
             /\ ConsolePlain

SpecInput == InitInput /\ [][InputNext]_vars

\* the show/hide animation under the host's clock
InitAnim == CliInit /\ script_path = None /\ sys_stdout = "__stdout__" /\ TextOutputSmallest
            /\ TextInputSmallest /\ ConsoleParts /\ ConsoleAnimInit

SpecAnim == InitAnim /\ [][AnimNext]_vars

\* a live console: its parts, its processor and its switch together
InitConsole == CliInit /\ script_path = None /\ sys_stdout = "__stdout__" /\ TextOutputSmallest
               /\ TextInputInit /\ ti_buffer_size = MaxInBufferSize /\ ConsolePlain

SpecConsole == InitConsole /\ [][ConsoleNext]_vars

(***************************************************************************)
(* Properties of the command line processor (checked under SpecCli).       *)
(***************************************************************************)
\* the last onecmd call was made with this line
Entered(line) == last.n > 0 /\ last.line = line

\* the messages written to the output by the last onecmd call
Written == SubSeq(out, last.mark + 1, Len(out))

\* the lines of script file f dispatched by the last call, in dispatch order
LinesOf(f) ==
    LET of_f(e) == e.file = f
    IN  SelectSeq(last.trace, of_f)

\* the dispatch of a script line that failed: a failure code or an exception
FailedLine(e) == e.ret = "-1" \/ e.exc # None

\* the script file the last call ran directly
TopFile == last.trace[1].file

\* C1: entering `unknowncmd arg1` makes exactly one write, the resolution
\* error, returns a failure (nonzero) code to the caller of onecmd and
\* raises nothing.
C1_UnknownCommandFails ==
    Entered(L_unknowncmd) =>
        /\ Len(Written) = 1
        /\ Written[1].kind = "str(E)"
        /\ last.exc = None
        /\ Truthy(last.ret)

\* C2: the script [`move $x $y`, `bogus_cmd`] run with x=10 y=20 dispatches
\* line 1 as `move 10 20`, aborts at `bogus_cmd` with a failure code, reports
\* line 2 with the text `bogus_cmd`, and keeps the move of line 1.
C2_ScriptSubstitutesThenAborts ==
    (Entered(L_script_a) /\ script_path # None) =>
        /\ Len(last.trace) = 2
        /\ last.trace[1].cmd_line = L_move
        /\ game_pos = <<last.pos0[1] + 10, last.pos0[2] + 20>>
        /\ Truthy(last.ret)
        /\ Written # <<>>
        /\ Written[Len(Written)].kind = "Error on line"
        /\ Written[Len(Written)].line_no = 2
        /\ Written[Len(Written)].arg = last.trace[2].text

\* C3: a script stops at the first line whose dispatch fails: the lines of
\* a file are dispatched once each in file order, nothing follows a failed
\* line, the host keeps the state the failed line left, and do_script
\* returns the failure code.
C3_ScriptStopsAtFirstFailure ==
    (last.n > 0 /\ last.trace # <<>>) =>
        \A f \in DOMAIN ScriptFiles :
            LET T == LinesOf(f)
            IN  /\ \A j \in 1..Len(T) : T[j].no = j
                /\ \A j \in 1..Len(T) : FailedLine(T[j]) => j = Len(T)
                /\ (f = TopFile /\ FailedLine(T[Len(T)])) =>
                       /\ last.ret = "-1"
                       /\ last.exc = None
                       /\ game_pos = T[Len(T)].pos

\* C3 witness: `script b` moved the host on line 1 and stopped at line 3
C3_Witness ==
    /\ Entered(L_script_b)
    /\ Len(last.trace) = 3
    /\ last.trace[3].ret = "-1"
    /\ last.ret = "-1"
    /\ game_pos = <<last.pos0[1] + 1, last.pos0[2] + 1>>

\* C4: the error written for a failed script line names the 1-based number
\* of that line in the file and its text before substitution.
C4_ErrorNamesFailedLine ==
    (last.n > 0 /\ last.trace # <<>> /\ FailedLine(LinesOf(TopFile)[Len(LinesOf(TopFile))])) =>
        LET T == LinesOf(TopFile)
            m == Written[Len(Written)]
        IN  /\ m.kind = "Error on line"
            /\ m.line_no = T[Len(T)].no
            /\ m.arg = T[Len(T)].text

\* C5: the result code of the handler decides the result of the command: a
\* line entered outside a script returns a failure code exactly when the
\* handler it called returned a nonzero code.
C5_HandlerResultDecides ==
    (last.n > 0 /\ last.trace = <<>> /\ last.handler_ret \notin {"no call", "raised"}) =>
        (Truthy(last.ret) <=> Truthy(last.handler_ret))

\* C6: no entered line makes an exception escape onecmd.
C6_NoExceptionEscapes == last.exc = None

\* C12: after a call, sys.stdout is the target that was in place before it,
\* whether the host had left the process stream or installed its own.
C12_StdoutTargetRestored == last.n > 0 => sys_stdout = last.stdout0

\* C13: when the handler raises during do_py_script, the message of the
\* exception is the one thing written, do_py_script returns -1, nothing
\* propagates and sys.stdout is the stream of the process.
C13_HandlerExceptionCaught ==
    (last.n > 0 /\ last.trace = <<>> /\ last.handler_ret = "raised") =>
        /\ Len(Written) = 1
        /\ Written[1].kind = "str(E)"
        /\ Written[1].err = "Script failed!"
        /\ last.py_ret = "-1"
        /\ last.exc = None
        /\ sys_stdout = "__stdout__"

\* C13 witness: the raising handler was called while the host had its own
\* stream installed
C13_Witness ==
    /\ Entered(L_failing)
    /\ last.handler_ret = "raised"
    /\ last.stdout0 = "host_stream"
    /\ last.py_ret = "-1"

(***************************************************************************)
(* Properties of the output buffer (checked under SpecOutput).             *)
(***************************************************************************)
\* C7: the buffer holds exactly the most recent buffer_size records written,
\* oldest first, and never more than buffer_size of them.
C7_BufferKeepsMostRecent ==
    LET n == Len(to_appended)
        m == Min(n, to_buffer_size)
    IN  /\ Len(to_buffer) <= to_buffer_size
        /\ to_buffer = SubSeq(to_appended, n - m + 1, n)

\* C7 witness: more records were written than the buffer holds, and the
\* buffer holds two different ones
C7_Witness ==
    /\ Len(to_appended) > to_buffer_size
    /\ Len(to_buffer) >= 2
    /\ to_buffer[1] # to_buffer[2]

\* C8: the view offset stays within 0 .. max(0, len(buffer) - display_lines).
C8_OffsetWithinView ==
    /\ 0 <= to_buffer_offset
    /\ to_buffer_offset <= Max(0, Len(to_buffer) - to_display_lines)

(***************************************************************************)
(* Properties of the input line (checked under SpecInput).                 *)
(***************************************************************************)
\* C9: with the one submitted line in the history and the input empty,
\* history-up then history-down leaves the input empty, and history-up
\* twice shows the submitted line.
C9_HistoryUpDown ==
    [][(Len(ti_buffer) = 1 /\ ti_buffer_offset = 1 /\ ti_text = <<>>) =>
           /\ InputUpdate(Released(<<KeyDown("K_UP"), KeyDown("K_DOWN")>>)) => ti_text' = <<>>
           /\ InputUpdate(Released(<<KeyDown("K_UP"), KeyDown("K_UP")>>))
                  => ti_text' = ti_buffer[1]]_vars

\* C10: the cursor stays within 0 .. len(text) whatever is edited, and
\* backspace at position 0 and delete at the end of the text change neither
\* the text nor the cursor.
C10_CursorWithinText ==
    /\ [](0 <= ti_cursor_position /\ ti_cursor_position <= Len(ti_text))
    /\ [][(\/ ti_cursor_position = 0 /\ InputUpdate(Released(<<KeyDown("K_BACKSPACE")>>))
           \/ ti_cursor_position = Len(ti_text)
                  /\ InputUpdate(Released(<<KeyDown("K_DELETE")>>)))
          => UNCHANGED <<ti_text, ti_cursor_position>>]_vars

\* C10 witness: a line was submitted and the next one is edited with the
\* cursor at its start
C10_Witness ==
    /\ ti_buffer # <<>>
    /\ Len(ti_text) = 2
    /\ ti_cursor_position = 0

\* the key of events[i] is released by it and not pressed again in the batch
ReleasedAt(events, i) ==
    /\ events[i].type = "KEYUP"
    /\ \A j \in (i + 1)..Len(events) :
           ~(events[j].type = "KEYDOWN" /\ events[j].key = events[i].key)

\* C18: a key released by a KEYUP of the batch, wherever the KEYUP stands in
\* it, has no repeat counter when update returns.
C18_ReleasedKeysDisarmed ==
    [][\A events \in InputBatches :
           InputUpdate(events) =>
               \A i \in 1..Len(events) :
                   ReleasedAt(events, i) => events[i].key \notin DOMAIN ti_keyrepeat_counters']_vars

(***************************************************************************)
(* Properties of the animation (checked under SpecAnim).                   *)
(***************************************************************************)
\* the last call was an animated show, the n-th since a toggle
ShownAnimated(n) ==
    con_last.op = "show" /\ con_last.animated /\ con_last.toggled /\ con_last.shows = n

\* C14: enabled by a toggle at percent 0 with velocity 10 per ms, the show
\* 5 ms after the toggle gives 50, and the next show, 20 ms after the toggle,
\* gives exactly 100.
C14_AnimationArithmetic ==
    (animation /\ enabled /\ anim_velocity = 10) =>
        /\ (ShownAnimated(1) /\ con_last.perc0 = 0 /\ con_last.at = con_last.toggled_at + 5)
               => anim_perc = 50
        /\ (ShownAnimated(2) /\ con_last.perc0 = 50 /\ con_last.at = con_last.toggled_at + 20)
               => anim_perc = 100

C14_Witness ==
    /\ animation /\ enabled /\ anim_velocity = 10
    /\ ShownAnimated(2) /\ con_last.perc0 = 50 /\ con_last.at = con_last.toggled_at + 20
    /\ anim_perc = 100

\* C15: every show leaves anim_perc within 0..100; it does not lower it
\* while the console is enabled nor raise it while disabled; at 100 and
\* enabled, and at 0 and disabled, it leaves it as it is, and in any other
\* state an animated show after some time has passed changes it.
C15_PercentMovesTowardsTarget ==
    con_last.op = "show" =>
        /\ anim_perc \in 0..100
        /\ con_last.had_perc =>
               /\ enabled => anim_perc >= con_last.perc0
               /\ ~enabled => anim_perc <= con_last.perc0
               /\ IF (enabled /\ con_last.perc0 = 100) \/ (~enabled /\ con_last.perc0 = 0)
                  THEN anim_perc = con_last.perc0
                  ELSE (con_last.animated /\ con_last.elapsed > 0)
                           => anim_perc # con_last.perc0

C15_Witness ==
    /\ ShownAnimated(2) /\ ~enabled
    /\ 0 < anim_perc /\ anim_perc < con_last.perc0 /\ con_last.perc0 < 100

\* C16: the first animated show after a toggle, called elapsed ms after it,
\* moves anim_perc by velocity * elapsed towards the side toggled to, then
\* clamps, whatever the time the animation had rested before the toggle.
C16_ToggleRestartsClock ==
    ShownAnimated(1) =>
        anim_perc = Clamp(con_last.perc0
                          + (IF enabled THEN 1 ELSE -1)
                            * anim_velocity * (con_last.at - con_last.toggled_at))

C16_Witness ==
    /\ ShownAnimated(1) /\ con_last.rest >= 15 /\ con_last.at > con_last.toggled_at
    /\ con_last.perc0 = 100 /\ anim_perc \in 1..99

(***************************************************************************)
(* Properties of the live console (checked under SpecConsole).             *)
(***************************************************************************)
\* C17: when toggle has been called, whatever keys were held when it was
\* called, the text input has no key-repeat counter.
C17_ToggleClearsKeyRepeat ==
    con_last.op = "toggle" => DOMAIN ti_keyrepeat_counters = {}

C17_Witness ==
    /\ con_last.op = "toggle" /\ con_last.exc = None
    /\ "K_RETURN" \in con_last.held0
    /\ DOMAIN ti_keyrepeat_counters = {}

\* the events of the batch that stand before its first Enter key-down
BeforeEnter(events) ==
    LET IsEnter(i) == events[i].type = "KEYDOWN" /\ events[i].key \in EnterKeys
        first == CHOOSE i \in 1..Len(events) :
                     IsEnter(i) /\ \A j \in 1..(i - 1) : ~IsEnter(j)
    IN  SubSeq(events, 1, first - 1)

\* the batch holds an Enter key-down
HasEnter(events) ==
    \E i \in 1..Len(events) : events[i].type = "KEYDOWN" /\ events[i].key \in EnterKeys

\* the text the input holds when the Enter of the batch is reached
TextAtEnter(events) ==
    LET before == BeforeEnter(events)
        RECURSIVE run(_, _)
        run(ti, i) ==
            IF i > Len(before) THEN ti
            ELSE run(TextInputEvent(ti, before[i], MaxTextLen), i + 1)
    IN  run(TextInputState, 1).text

\* the n newest entries of a history, all of them when it holds fewer
Newest(history, n) ==
    SubSeq(history, Len(history) - Min(Len(history), n) + 1, Len(history))

\* C11: Enter on an enabled console with an input part dispatches the text
\* held at that moment and leaves the input empty with the cursor at 0; a
\* non-empty text becomes the newest history entry, the oldest entries
\* leaving so that no more than buffer_size stay; an empty text leaves the
\* history as it was.
C11_EnterSubmits ==
    [][\A events \in ConsoleBatches :
           (/\ HasEnter(events) /\ enabled /\ console_input # None
            /\ con_last'.op = "update" /\ ConsoleUpdate(events)) =>
               LET text == TextAtEnter(events)
               IN  /\ last'.n = last.n + 1 /\ last'.line = text
                   /\ ti_text' = <<>> /\ ti_cursor_position' = 0
                   /\ IF text = <<>>
                      THEN ti_buffer' = ti_buffer
                      ELSE /\ ti_buffer' = Newest(Append(ti_buffer, text), ti_buffer_size)
                           /\ Len(ti_buffer') <= ti_buffer_size]_vars

C20_InitKeepsRegistryHostSwitch ==
    [][con_last'.op = "init" =>
           /\ DOMAIN cmd_scripts' = DOMAIN cmd_scripts
           /\ \A alias \in DOMAIN cmd_scripts : cmd_scripts'[alias] = cmd_scripts[alias]
           /\ app' = app
           /\ enabled' = enabled]_vars

(***************************************************************************)
(* The registry of command handlers.                                       *)
(***************************************************************************)
\* the aliases of a registry
Aliases(reg) == DOMAIN reg

\* C21: registering a handler under an alias, registered before or not,
\* raises nothing and makes it the handler a lookup of the alias returns,
\* while every other alias keeps the handler it had.
C21_LastRegistrationWins ==
    reg_last.op = "_register_command" =>
        /\ reg_last.exc = None
        /\ Lookup(cmd_scripts, reg_last.name) = reg_last.fnc
        /\ Aliases(cmd_scripts) = Aliases(reg_last.reg0) \cup {reg_last.name}
        /\ \A a \in Aliases(reg_last.reg0) \ {reg_last.name} :
               cmd_scripts[a] = reg_last.reg0[a]

\* a handler replaced another one, next to an alias that is not touched
C21_Witness ==
    /\ reg_last.op = "_register_command"
    /\ reg_last.name \in Aliases(reg_last.reg0)
    /\ reg_last.reg0[reg_last.name] # reg_last.fnc
    /\ Aliases(reg_last.reg0) \ {reg_last.name} # {}

\* C22: get_command of a registered alias returns its handler, resolves no
\* module and leaves the registry as it was; of an alias that is not
\* registered it resolves the module of that name, and when that and the
\* registration succeed it returns the handler now registered under the alias.
C22_GetCommandFrame ==
    reg_last.op = "get_command" =>
        IF reg_last.name \in Aliases(reg_last.reg0)
        THEN /\ reg_last.exc = None
             /\ reg_last.ret = reg_last.reg0[reg_last.name]
             /\ reg_last.resolved = <<>>
             /\ cmd_scripts = reg_last.reg0
        ELSE /\ reg_last.resolved = <<reg_last.name>>
             /\ reg_last.exc = None =>
                    /\ reg_last.name \in Aliases(cmd_scripts)
                    /\ reg_last.ret = cmd_scripts[reg_last.name]
                    /\ reg_last.ret # None

\* a registered alias is looked up whose handler is not the one its module
\* would register
C22_Witness ==
    /\ reg_last.op = "get_command"
    /\ reg_last.name = W_move
    /\ reg_last.name \in Aliases(reg_last.reg0)
    /\ reg_last.reg0[reg_last.name] = "mock_py_script_fnc"

\* C23: register_command of a module that cannot be found raises to its
\* caller, writes nothing to the output and leaves the registry unchanged.
C23_ModuleNotFoundRaises ==
    (reg_last.op = "register_command" /\ reg_last.name \notin CommandModules) =>
        /\ reg_last.exc = "ValueError"
        /\ reg_last.msg = "Error during loading of py script command module"
        /\ Len(out) = reg_last.mark
        /\ cmd_scripts = reg_last.reg0

\* a module that is not in the package is registered into a registry that
\* holds handlers
C23_Witness ==
    /\ reg_last.op = "register_command"
    /\ reg_last.name = W_nonexistent_cmd
    /\ reg_last.reg0 # <<>>

\* C24: when the module is found and its initialize fails, register_command
\* writes exactly one error line naming the module to the output, and raises.
C24_InitializeErrorWritten ==
    (reg_last.op = "register_command" /\ InitializeRaises(reg_last.name)) =>
        /\ reg_last.exc # None
        /\ Len(out) = reg_last.mark + 1
        /\ out[Len(out)].arg = reg_last.name

(***************************************************************************)
(* What a write and a clear leave in the output (checked under SpecOutput).*)
(***************************************************************************)
\* the records appended by the last call made on the output
LastAppended == SubSeq(to_appended, to_last.mark + 1, Len(to_appended))

\* the texts of a sequence of records
TextsOf(records) == [i \in 1..Len(records) |-> records[i][1]]

\* the reference split of text, read character by character: a newline ends
\* the chunk being filled, a character is added to it unless it already has
\* columns characters and then starts the next chunk, empty chunks are
\* dropped; tab is what stands for a tab character
ReferenceSplit(text, columns, tab) ==
    LET RECURSIVE expand(_)
        expand(i) ==
            IF i > Len(text) THEN <<>>
            ELSE (IF text[i] = "\t" THEN tab ELSE <<text[i]>>) \o expand(i + 1)
        chars == expand(1)
        Closed(chunk) == IF chunk = <<>> THEN <<>> ELSE <<chunk>>
        RECURSIVE scan(_, _)
        scan(i, chunk) ==
            IF i > Len(chars) THEN Closed(chunk)
            ELSE IF chars[i] = "\n" THEN Closed(chunk) \o scan(i + 1, <<>>)
            ELSE IF Len(chunk) = columns THEN <<chunk>> \o scan(i + 1, <<chars[i]>>)
            ELSE scan(i + 1, Append(chunk, chars[i]))
    IN  scan(1, <<>>)

\* C25 as stated: a write appends, in order, exactly the chunks of the
\* reference split of the text it is given: split on newlines, empty lines
\* skipped, every line cut into consecutive chunks of at most display_columns
\* characters whose concatenation is the line.
C25_WriteAppendsSplitOfText ==
    to_last.op = "write" =>
        TextsOf(LastAppended) = ReferenceSplit(to_last.text, to_display_columns, <<"\t">>)

\* C25 amended: a write appends, in order, exactly the chunks of the
\* reference split of the text in which every tab is replaced by tab_spaces
\* spaces.
C25_WriteAppendsSplitOfExpandedText ==
    to_last.op = "write" =>
        TextsOf(LastAppended) =
            ReferenceSplit(to_last.text, to_display_columns, [i \in 1..TabSpaces |-> " "])

\* the two lines a and b are written to an output that holds records already
C25_Witness ==
    /\ to_last.op = "write"
    /\ to_last.text = <<"a", "\n", "b">>
    /\ to_last.mark > 0
    /\ TextsOf(LastAppended) = << <<"a">>, <<"b">> >>

\* C29: after Console.clear() the output buffer holds no records and the
\* visible page is empty.
C29_ClearEmptiesOutput ==
    to_last.op = "clear" =>
        /\ to_buffer = <<>>
        /\ prepare_surface(to_buffer, to_buffer_offset, to_display_lines) = <<>>

\* C30: after Console.write of a text that appends records, those records
\* are on the page rendered next: they are in the buffer, and the page at
\* buffer_offset reaches the end of the buffer and holds at least as many
\* records as were appended.
C30_WrittenRecordsVisible ==
    (to_last.op = "write" /\ LastAppended # <<>>) =>
        LET page == prepare_surface(to_buffer, to_buffer_offset, to_display_lines)
            k == Len(LastAppended)
        IN  /\ k <= Len(page)
            /\ to_buffer_offset + Len(page) = Len(to_buffer)
            /\ SubSeq(page, Len(page) - k + 1, Len(page)) = LastAppended

(***************************************************************************)
(* The script verb: help, the verbose flag, a file that is not there       *)
(* (checked under SpecCli).                                                *)
(***************************************************************************)
\* C26: `script -h` and `script --help` write the usage instructions to the
\* console output exactly once, dispatch no script line and touch no file.
C26_ScriptHelpWritesUsage ==
    (Entered(L_script_help) \/ Entered(L_script_help_long)) =>
        /\ Len(Written) = 1
        /\ Written[1].kind = "instructions"
        /\ last.trace = <<>>
        /\ last.opened = <<>>

\* C27: with a script directory configured, `script b -v` writes a start trace before the first line is
\* dispatched and, when the script succeeds, a completion trace after the
\* last one; the lines dispatched, their order, the point of abort, the
\* state of the host and the return code are those of `script b`.
C27_VerboseRunsTheSame ==
    [][(script_path # None /\ last'.n = last.n + 1 /\ last'.line = L_script_verbose) =>
           LET plain == onecmd(CliState, L_script_b)
               written == SubSeq(out', Len(out) + 1, Len(out'))
           IN  /\ written # <<>>
               /\ written[1].kind = "Script started"
               /\ plain.ret = None => written[Len(written)].kind = "Script finished"
               /\ last'.trace = plain.st.trace
               /\ last'.ret = plain.ret
               /\ last'.exc = plain.exc
               /\ game_pos' = plain.st.game_pos]_vars

\* C28: when the script file does not exist, do_script dispatches no line,
\* writes the `not found` message, which is not the message of a failed
\* line, and returns the failure code.
C28_MissingScriptReported ==
    Entered(L_script_missing) =>
        /\ last.trace = <<>>
        /\ Len(Written) = 1
        /\ Written[1].kind = "Script file not found"
        /\ last.ret = "-1"
        /\ last.exc = None

(***************************************************************************)
(* The view of the output after a submission (checked under SpecConsole).  *)
(***************************************************************************)
\* C31: when Console.update returns after a line was submitted, by Return
\* or by the Enter of the keypad and wherever the view was scrolled to, the
\* buffer_offset of the output is max(0, len(buffer) - display_lines).
C31_SubmissionShowsTail ==
    [][(con_last'.op = "update" /\ con_last'.exc = None /\ last'.n = last.n + 1
        /\ console_output # None) =>
           to_buffer_offset' = Max(0, Len(to_buffer') - to_display_lines)]_vars

(***************************************************************************)
(* The time the animation takes (checked under SpecAnim).                  *)
(***************************************************************************)
\* C32: toggled on while fully hidden, the console is fully shown once
\* anim_time ms have passed since the toggle, and until then shows the
\* share of 100 percent that has passed of anim_time, whatever its height.
C32_ShownAfterAnimTime ==
    (ShownAnimated(1) /\ enabled /\ con_last.perc0 = 0) =>
        LET elapsed == con_last.at - con_last.toggled_at
        IN  /\ elapsed >= anim_time => anim_perc = 100
            /\ elapsed < anim_time => anim_perc * anim_time = 100 * elapsed

(***************************************************************************)
(* A command entered by its name and through py_script (checked under      *)
(* SpecCli).                                                               *)
(***************************************************************************)
\* the entered lines that start with the name of a command
CommandLines == {L_unknowncmd, L_move, L_move_bad, L_move_partial, L_test, L_TEST, L_failing}

\* C33: entering `X args` is the same as entering `py_script X args`: the
\* same handler is called with the same params and leaves the host and the
\* registry the same, the same text is written to the output and onecmd
\* returns the same result, on success and on failure.
C33_DefaultIsPyScript ==
    [][\A line \in CommandLines :
           (last'.n = last.n + 1 /\ last'.line = line) =>
               LET through == onecmd(CliState, W_py_script \o <<" ">> \o line)
               IN  /\ last'.handler_ret = through.st.handler_ret
                   /\ game_pos' = through.st.game_pos
                   /\ game_exit' = through.st.game_exit
                   /\ cmd_scripts' = through.st.cmd_scripts
                   /\ out' = through.st.out
                   /\ last'.exc = through.exc
                   /\ last'.ret = through.ret]_vars


\* C34: an update of an enabled console whose batch holds Enter, the input
\* holding the text T at that moment, appends T to the output as the echo
\* ahead of everything the command writes, dispatches T once through onecmd,
\* and leaves the input text empty with the cursor at 0.
C34_EchoDispatchClear ==
    [][\A events \in ConsoleBatches :
           (/\ HasEnter(events) /\ enabled /\ console_input # None
            /\ con_last'.op = "update" /\ ConsoleUpdate(events)) =>
               LET text == TextAtEnter(events)
                   echo == RecordsOfAll(<<text>>, <<"input.font_color">>, to_display_columns)
                   added == SubSeq(to_appended', Len(to_appended) + 1, Len(to_appended'))
               IN  /\ console_output # None =>
                          /\ Len(added) >= Len(echo)
                          /\ SubSeq(added, 1, Len(echo)) = echo
                   /\ last'.n = last.n + 1 /\ last'.line = text
                   /\ ti_text' = <<>> /\ ti_cursor_position' = 0]_vars


\* C35: a show called again at the time of the show before it, with the
\* same disable_anim and nothing called in between, leaves anim_perc and
\* anim_last_time as that show left them.
C35_ShowReplayKeepsAnimation ==
    [][(/\ con_last.op = "show" /\ con_last.at = ticks
        /\ con_last'.op = "show" /\ con_last'.animated = con_last.animated) =>
           /\ anim_perc' = anim_perc
           /\ anim_last_time' = anim_last_time]_vars

\* an animated show replayed while the console is on its way in, some time
\* after the toggle
C35_Witness ==
    /\ ShownAnimated(2) /\ enabled /\ con_last.elapsed = 0
    /\ con_last.at > con_last.toggled_at
    /\ con_last.perc0 = anim_perc /\ anim_perc \in 1..99


\* C36: whatever was submitted and recalled, under every buffer_size from 1
\* up, the history index stays within 0 .. len(history), and the entry a
\* history-up or a history-down reads next is one of 0 .. len(history) - 1.
C36_HistoryIndexInRange ==
    /\ ti_buffer_offset \in 0..Len(ti_buffer)
    /\ Len(ti_buffer) > 0 =>
           HistoryUpOffset(ti_buffer, ti_buffer_offset) \in 0..(Len(ti_buffer) - 1)
    /\ ti_buffer_offset < Len(ti_buffer) - 1 =>
           ti_buffer_offset + 1 \in 0..(Len(ti_buffer) - 1)

\* a full history of different lines, recalled back to its oldest entry
C36_Witness ==
    /\ Len(ti_buffer) = ti_buffer_size /\ ti_buffer_size > 1
    /\ ti_buffer[Len(ti_buffer)] # ti_buffer[1]
    /\ ti_buffer_offset = 0 /\ ti_text = ti_buffer[1]


\* C37: the update that submits a non-empty line L leaves the input such
\* that the next history-up shows exactly L, whether or not the submission
\* dropped the oldest entry.
C37_UpRecallsSubmitted ==
    [][\A events \in InputBatches :
           (HasEnter(events) /\ TextAtEnter(events) # <<>> /\ InputUpdate(events)) =>
               TextInputHistoryUp(TextInputState').text = TextAtEnter(events)]_vars


\* the batches of the input that hold an Enter key-down
EnterBatches == {events \in InputBatches : HasEnter(events)}

\* C38: an update whose batch holds an Enter key-down ends at the first of
\* them: the history grows by one line at most, the input is left as by the
\* batch cut off behind that Enter, every key-repeat counter keeps the value
\* it had or stands at 0 as armed, and the clock of the input is not ticked.
C38_EnterEndsUpdate ==
    [][\A events \in EnterBatches :
           InputUpdate(events) =>
               \A short \in {TextInputUpdate(TextInputState,
                                             SubSeq(events, 1, Len(BeforeEnter(events)) + 1),
                                             ti_buffer_size, MaxTextLen, 0).ti} :
                   /\ Len(ti_buffer') <= Len(ti_buffer) + 1
                   /\ ti_buffer' = short.buffer
                   /\ ti_buffer_offset' = short.buffer_offset
                   /\ ti_text' = clear_text(short).text
                   /\ ti_cursor_position' = clear_text(short).cursor_position
                   /\ DOMAIN ti_keyrepeat_counters' = DOMAIN short.keyrepeat_counters
                   /\ \A k \in DOMAIN ti_keyrepeat_counters' :
                          ti_keyrepeat_counters'[k] =
                              IF k \in DOMAIN ti_keyrepeat_counters
                              THEN ti_keyrepeat_counters[k] ELSE 0
                   /\ \A clock_time \in ClockTimes :
                          ~TextInputUpdate(TextInputState, events, ti_buffer_size,
                                           MaxTextLen, clock_time).ticked]_vars

\* keypad Enter was pressed and released in one batch: the line is in the
\* history and the counter of the key, armed before the return, is still
\* there at 0
C38_Witness ==
    /\ ti_buffer # <<>> /\ ti_text = <<>>
    /\ "K_KP_ENTER" \in DOMAIN ti_keyrepeat_counters
    /\ ti_keyrepeat_counters["K_KP_ENTER"] = 0


\* the lines whose handler prints "Script output!" and then raises
LoudLines == {L_failing_loud, L_py_failing_loud}

\* C39: when the handler prints and then raises inside do_py_script, the
\* message of the exception is the one record written: no record written
\* by the call holds what the handler had printed.
C39_PrintedTextDropped ==
    (last.n > 0 /\ last.line \in LoudLines /\ last.trace = <<>>) =>
        /\ last.handler_ret = "raised"
        /\ Len(Written) = 1
        /\ Written[1] = MsgException("RuntimeError", "Script failed!", <<>>)
        /\ \A i \in 1..Len(Written) :
               /\ Written[i].kind # "console_out"
               /\ \A j \in 1..Len(Written[i].prints) :
                      Written[i].prints[j] # "Script output!"

\* the printing and raising handler was reached through py_script and other
\* text was in the output before
C39_Witness ==
    /\ Entered(L_py_failing_loud) /\ last.handler_ret = "raised"
    /\ last.mark > 0 /\ Len(out) = last.mark + 1


\* C40: on every console a configuration builds, with or without an input
\* part, toggle raises nothing and leaves enabled flipped, or as forced by
\* its argument.
C40_ToggleNeverRaises ==
    [][\A enable \in ToggleArgs :
           (con_last'.op = "toggle" /\ ConsoleToggle(enable)) =>
               /\ con_last'.exc = None
               /\ enabled' = IF enable = None THEN ~enabled ELSE (enable = "True")]_vars

====
